---- MODULE Spec2Model ----
(***************************************************************************)
(* Model of the Transform and Descriptive-Analysis stage of the            *)
(* Harry Potter ETL (src/2.transform/transform.py).                        *)
(*                                                                         *)
(* Python values are tagged records [t |-> tag, v |-> payload]:            *)
(*   none, bool (0/1), int, bigint (an int whose magnitude exceeds the     *)
(*   largest finite double; payload is its sign), float (payload is the    *)
(*   exact rational <<num, den>>), inf (payload is the sign), nan,         *)
(*   str (payload is the sequence of one-character strings), list, dict    *)
(*   (payload is a function from key to value).                            *)
(* A call that may raise returns [exc |-> name or "none", val |-> value].  *)
(***************************************************************************)
EXTENDS Integers, Sequences, FiniteSets, TLC

\* ------------------------------------------------------------ bounds
MaxStrLen == 3
MaxChars == 3
MaxWide == 1
MaxObs == 5
MaxData == 3
MaxTopN == 3
MaxSeq == 3
MaxPages == 3
MaxPolls == 3
MaxPrior == 2
MaxBatch == 2
MaxRuns == 2
MaxRecords == 2

\* ------------------------------------------------------------ values
NoneV == [t |-> "none", v |-> 0]
BoolV(b) == [t |-> "bool", v |-> IF b THEN 1 ELSE 0]
IntV(n) == [t |-> "int", v |-> n]
BigIntV(sign) == [t |-> "bigint", v |-> sign]
FloatV(r) == [t |-> "float", v |-> r]
InfV(sign) == [t |-> "inf", v |-> sign]
NanV == [t |-> "nan", v |-> 0]
StrV(s) == [t |-> "str", v |-> s]
ListV(s) == [t |-> "list", v |-> s]
DictV(m) == [t |-> "dict", v |-> m]

Ret(x) == [exc |-> "none", val |-> x]
Raise(e) == [exc |-> e, val |-> NoneV]

\* ------------------------------------------------------------ rationals
Abs(n) == IF n < 0 THEN -n ELSE n

RECURSIVE Gcd(_, _)
Gcd(a, b) == IF b = 0 THEN a ELSE Gcd(b, a % b)

\* the rational n/d in lowest terms with a positive denominator
Rat(n, d) ==
  LET s == IF d < 0 THEN -1 ELSE 1
      g == Gcd(Abs(n), Abs(d))
  IN  <<(s * n) \div g, (s * d) \div g>>

RInt(n) == <<n, 1>>
RAdd(a, b) == Rat(a[1] * b[2] + b[1] * a[2], a[2] * b[2])
RSub(a, b) == Rat(a[1] * b[2] - b[1] * a[2], a[2] * b[2])
RMul(a, b) == Rat(a[1] * b[1], a[2] * b[2])
RDiv(a, b) == Rat(a[1] * b[2], a[2] * b[1])
RLess(a, b) == a[1] * b[2] < b[1] * a[2]
RLeq(a, b) == a[1] * b[2] <= b[1] * a[2]
RAbs(a) == <<Abs(a[1]), a[2]>>

\* the exact value of a finite number (bool, int or float)
NumValue(v) == IF v.t = "float" THEN v.v ELSE RInt(v.v)

\* int(x) of a finite float: truncation toward zero
RTrunc(a) == IF a[1] >= 0 THEN a[1] \div a[2] ELSE -((-a[1]) \div a[2])

\* ------------------------------------------------------------ strings
UpperCase == <<"A", "B", "C", "D", "E", "F", "G", "H", "I", "J", "K", "L", "M",
               "N", "O", "P", "Q", "R", "S", "T", "U", "V", "W", "X", "Y", "Z">>
LowerCase == <<"a", "b", "c", "d", "e", "f", "g", "h", "i", "j", "k", "l", "m",
               "n", "o", "p", "q", "r", "s", "t", "u", "v", "w", "x", "y", "z">>
DigitChars == <<"0", "1", "2", "3", "4", "5", "6", "7", "8", "9">>

LowerChar(c) ==
  IF \E i \in DOMAIN UpperCase : UpperCase[i] = c
  THEN LowerCase[CHOOSE i \in DOMAIN UpperCase : UpperCase[i] = c]
  ELSE c

\* str.lower()
Lower(s) == [i \in DOMAIN s |-> LowerChar(s[i])]

\* str.replace(',', '')
RECURSIVE RemoveCommas(_)
RemoveCommas(s) ==
  IF s = <<>> THEN <<>>
  ELSE IF Head(s) = "," THEN RemoveCommas(Tail(s))
       ELSE <<Head(s)>> \o RemoveCommas(Tail(s))

IsDigit(c) == \E i \in DOMAIN DigitChars : DigitChars[i] = c
DigitVal(c) == (CHOOSE i \in DOMAIN DigitChars : DigitChars[i] = c) - 1
IsSpace(c) == c = " "

RECURSIVE LStrip(_)
LStrip(s) == IF s # <<>> /\ IsSpace(Head(s)) THEN LStrip(Tail(s)) ELSE s

RECURSIVE RStrip(_)
RStrip(s) ==
  IF s # <<>> /\ IsSpace(s[Len(s)]) THEN RStrip(SubSeq(s, 1, Len(s) - 1)) ELSE s

Strip(s) == RStrip(LStrip(s))

AllDigits(s) == \A i \in DOMAIN s : IsDigit(s[i])

RECURSIVE DigitsValue(_)
DigitsValue(s) ==
  IF s = <<>> THEN 0
  ELSE 10 * DigitsValue(SubSeq(s, 1, Len(s) - 1)) + DigitVal(s[Len(s)])

RECURSIVE Pow10(_)
Pow10(k) == IF k = 0 THEN 1 ELSE 10 * Pow10(k - 1)

\* the unsigned decimal forms float() accepts: "12", "12.", "12.5", ".5"
DotPositions(s) == {i \in DOMAIN s : s[i] = "."}

IsDecimal(s) ==
  /\ s # <<>>
  /\ \/ AllDigits(s)
     \/ /\ Cardinality(DotPositions(s)) = 1
        /\ Len(s) > 1
        /\ LET d == CHOOSE i \in DOMAIN s : s[i] = "."
           IN  /\ AllDigits(SubSeq(s, 1, d - 1))
               /\ AllDigits(SubSeq(s, d + 1, Len(s)))

DecimalValue(s) ==
  IF AllDigits(s) THEN RInt(DigitsValue(s))
  ELSE LET d == CHOOSE i \in DOMAIN s : s[i] = "."
           ip == SubSeq(s, 1, d - 1)
           fp == SubSeq(s, d + 1, Len(s))
       IN  Rat(DigitsValue(ip) * Pow10(Len(fp)) + DigitsValue(fp), Pow10(Len(fp)))

\* float(str): surrounding whitespace and a sign are allowed; "inf",
\* "infinity" and "nan" are accepted in any case; anything else that is not
\* a decimal literal raises ValueError
PyFloatStr(s) ==
  LET b == Strip(s)
      signed == b # <<>> /\ Head(b) \in {"+", "-"}
      sign == IF signed /\ Head(b) = "-" THEN -1 ELSE 1
      u == IF signed THEN Tail(b) ELSE b
      lu == Lower(u)
  IN  IF lu = <<"i", "n", "f">> \/ lu = <<"i", "n", "f", "i", "n", "i", "t", "y">>
        THEN Ret(InfV(sign))
      ELSE IF lu = <<"n", "a", "n">> THEN Ret(NanV)
      ELSE IF IsDecimal(u) THEN Ret(FloatV(RMul(RInt(sign), DecimalValue(u))))
      ELSE Raise("ValueError")

\* float(int or float): a bool is an int; an int beyond the double range
\* raises OverflowError
PyFloatNum(x) ==
  CASE x.t = "bool" -> Ret(FloatV(RInt(x.v)))
    [] x.t = "int" -> Ret(FloatV(RInt(x.v)))
    [] x.t = "bigint" -> Raise("OverflowError")
    [] OTHER -> Ret(x)

\* isinstance(value, (int, float)): bool is a subclass of int
IsIntOrFloat(x) == x.t \in {"bool", "int", "bigint", "float", "inf", "nan"}
IsBool(x) == x.t = "bool"
IsStr(x) == x.t = "str"

\* ------------------------------------------------------------ HPTransformer
NullWords == {<<"u", "n", "k", "n", "o", "w", "n">>, <<"n", "/", "a">>,
              <<"n", "o", "n", "e">>, <<>>}

_parse_numeric(value) ==
  IF value = NoneV THEN Ret(NoneV)
  ELSE IF IsIntOrFloat(value) THEN PyFloatNum(value)
  ELSE IF IsStr(value) THEN
    IF Lower(value.v) \in NullWords THEN Ret(NoneV)
    ELSE LET r == PyFloatStr(RemoveCommas(value.v))
         IN  IF r.exc = "ValueError" THEN Ret(NoneV) ELSE r
  ELSE Ret(NoneV)


\* dict.get(key, default); None, str, list and numbers have no attribute get
PyGet(obj, key, default) ==
  IF obj.t = "dict"
  THEN Ret(IF key \in DOMAIN obj.v THEN obj.v[key] ELSE default)
  ELSE Raise("AttributeError")

\* bool(x)
Truthy(x) ==
  CASE x.t = "none" -> FALSE
    [] x.t \in {"bool", "int"} -> x.v # 0
    [] x.t = "float" -> x.v[1] # 0
    [] x.t \in {"bigint", "inf", "nan"} -> TRUE
    [] x.t \in {"str", "list"} -> Len(x.v) > 0
    [] x.t = "dict" -> DOMAIN x.v # {}

\* int(x) of a float: inf raises OverflowError, nan raises ValueError
PyInt(x) ==
  CASE x.t = "float" -> Ret(IntV(RTrunc(x.v)))
    [] x.t = "inf" -> Raise("OverflowError")
    [] x.t = "nan" -> Raise("ValueError")
    [] OTHER -> Ret(x)

EmptyDict == [k \in {} |-> NoneV]
EmptyList == ListV(<<>>)

\* lines 51-74 written to copy only the keys the raw record carries
FlatRecordPresentOnly(character, wand, year, wand_length) ==
  [f \in {"year_of_birth", "wand_length"}
          \cup {g \in {"id", "name", "house", "wizard"} : g \in DOMAIN character.v} |->
     CASE f = "year_of_birth" -> year
       [] f = "wand_length" -> wand_length
       [] OTHER -> character.v[f]]

\* the dict literal of lines 51-74, given the wand and the converted numbers
FlatRecord(character, wand, year, wand_length) ==
  [id |-> PyGet(character, "id", NoneV).val,
   name |-> PyGet(character, "name", NoneV).val,
   alternate_names |-> PyGet(character, "alternate_names", EmptyList).val,
   house |-> PyGet(character, "house", NoneV).val,
   year_of_birth |-> year,
   ancestry |-> PyGet(character, "ancestry", NoneV).val,
   gender |-> PyGet(character, "gender", NoneV).val,
   species |-> PyGet(character, "species", NoneV).val,
   wizard |-> PyGet(character, "wizard", NoneV).val,
   wand_wood |-> PyGet(wand, "wood", NoneV).val,
   wand_core |-> PyGet(wand, "core", NoneV).val,
   wand_length |-> wand_length,
   patronus |-> PyGet(character, "patronus", NoneV).val,
   hogwarts_student |-> PyGet(character, "hogwartsStudent", NoneV).val,
   hogwarts_staff |-> PyGet(character, "hogwartsStaff", NoneV).val,
   actor |-> PyGet(character, "actor", NoneV).val,
   alternate_actors |-> PyGet(character, "alternate_actors", EmptyList).val,
   alive |-> PyGet(character, "alive", NoneV).val,
   image |-> PyGet(character, "image", NoneV).val,
   eye_colour |-> PyGet(character, "eyeColour", NoneV).val,
   hair_colour |-> PyGet(character, "hairColour", NoneV).val,
   date_of_birth |-> PyGet(character, "dateOfBirth", NoneV).val]

\* lines 43-45 with the bool() call left out: only the literal False is excluded
GateClosedIsFalse(w) == w = BoolV(FALSE)

\* lines 43-45: wizard = bool(character.get('wizard')); if wizard is False
GateClosed(w) == ~Truthy(w)

Skipped == [exc |-> "none", kept |-> FALSE, rec |-> EmptyDict]
Failed(e) == [exc |-> e, kept |-> FALSE, rec |-> EmptyDict]

\* the try block of one loop iteration (lines 43-75), in evaluation order
TryBody(character) ==
  LET w == PyGet(character, "wizard", NoneV)
  IN  IF w.exc # "none" THEN Failed(w.exc)
      ELSE IF GateClosed(w.val) THEN Skipped
      ELSE
        LET wand == PyGet(character, "wand", DictV(EmptyDict)).val
            year_of_birth == _parse_numeric(PyGet(character, "yearOfBirth", NoneV).val)
        IN  IF year_of_birth.exc # "none" THEN Failed(year_of_birth.exc)
            ELSE
              LET year == IF year_of_birth.val # NoneV
                          THEN PyInt(year_of_birth.val) ELSE Ret(NoneV)
              IN  IF year.exc # "none" THEN Failed(year.exc)
                  ELSE IF PyGet(wand, "wood", NoneV).exc # "none"
                    THEN Failed(PyGet(wand, "wood", NoneV).exc)
                  ELSE
                    LET wand_length == _parse_numeric(PyGet(wand, "length", NoneV).val)
                    IN  IF wand_length.exc # "none" THEN Failed(wand_length.exc)
                        ELSE [exc |-> "none", kept |-> TRUE,
                              rec |-> FlatRecord(character, wand, year.val,
                                                 wand_length.val)]

\* the except block (line 77): the message reads character.get('name', 'unknown')
HandlerName(character) == PyGet(character, "name", StrV(<<"u", "n", "k", "n", "o", "w", "n">>))


\* the elements of a list
Listed(s) == {s[i] : i \in DOMAIN s}

\* ------------------------------------------------------------ DescriptiveAnalysis
\* record.get(column) on a flat record (a function from field name to value)
RecGet(record, column) == IF column \in DOMAIN record THEN record[column] ELSE NoneV

\* the characters of each field name, for sorted()
Spelling ==
  [id |-> <<"i", "d">>,
   name |-> <<"n", "a", "m", "e">>,
   alternate_names |-> <<"a", "l", "t", "e", "r", "n", "a", "t", "e", "_", "n", "a", "m", "e", "s">>,
   house |-> <<"h", "o", "u", "s", "e">>,
   year_of_birth |-> <<"y", "e", "a", "r", "_", "o", "f", "_", "b", "i", "r", "t", "h">>,
   ancestry |-> <<"a", "n", "c", "e", "s", "t", "r", "y">>,
   gender |-> <<"g", "e", "n", "d", "e", "r">>,
   species |-> <<"s", "p", "e", "c", "i", "e", "s">>,
   wizard |-> <<"w", "i", "z", "a", "r", "d">>,
   wand_wood |-> <<"w", "a", "n", "d", "_", "w", "o", "o", "d">>,
   wand_core |-> <<"w", "a", "n", "d", "_", "c", "o", "r", "e">>,
   wand_length |-> <<"w", "a", "n", "d", "_", "l", "e", "n", "g", "t", "h">>,
   patronus |-> <<"p", "a", "t", "r", "o", "n", "u", "s">>,
   hogwarts_student |-> <<"h", "o", "g", "w", "a", "r", "t", "s", "_", "s", "t", "u", "d", "e", "n", "t">>,
   hogwarts_staff |-> <<"h", "o", "g", "w", "a", "r", "t", "s", "_", "s", "t", "a", "f", "f">>,
   actor |-> <<"a", "c", "t", "o", "r">>,
   alternate_actors |-> <<"a", "l", "t", "e", "r", "n", "a", "t", "e", "_", "a", "c", "t", "o", "r", "s">>,
   alive |-> <<"a", "l", "i", "v", "e">>,
   image |-> <<"i", "m", "a", "g", "e">>,
   eye_colour |-> <<"e", "y", "e", "_", "c", "o", "l", "o", "u", "r">>,
   hair_colour |-> <<"h", "a", "i", "r", "_", "c", "o", "l", "o", "u", "r">>,
   date_of_birth |-> <<"d", "a", "t", "e", "_", "o", "f", "_", "b", "i", "r", "t", "h">>]

\* the characters of field names in code-point order
AsciiOrder == DigitChars \o UpperCase \o <<"_">> \o LowerCase

CodePoint(c) == CHOOSE i \in DOMAIN AsciiOrder : AsciiOrder[i] = c

\* a < b for two strings: the first differing character decides, a proper
\* prefix is smaller
RECURSIVE SeqLess(_, _)
SeqLess(a, b) ==
  IF b = <<>> THEN FALSE
  ELSE IF a = <<>> THEN TRUE
  ELSE IF Head(a) # Head(b) THEN CodePoint(Head(a)) < CodePoint(Head(b))
  ELSE SeqLess(Tail(a), Tail(b))

StrLess(a, b) == SeqLess(Spelling[a], Spelling[b])

\* sorted(list(a set of names))
RECURSIVE SortedNames(_)
SortedNames(S) ==
  IF S = {} THEN <<>>
  ELSE LET least == CHOOSE a \in S : \A b \in S \ {a} : StrLess(a, b)
       IN  <<least>> \o SortedNames(S \ {least})

\* line 114 without its last conjunct: a bool is an int
NumericIncludingBool(value) == IsIntOrFloat(value)

\* line 114: isinstance(value, (int, float)) and not isinstance(value, bool)
IsNumericNotBool(value) == IsIntOrFloat(value) /\ ~IsBool(value)

_get_numeric_columns(data) ==
  IF data = <<>> THEN <<>>
  ELSE SortedNames({key \in UNION {DOMAIN data[i] : i \in DOMAIN data} :
                      /\ key # "id"
                      /\ \E i \in DOMAIN data :
                           key \in DOMAIN data[i] /\ IsNumericNotBool(data[i][key])})

\* a float that is not finite: inf and -inf as 1/0 and -1/0, nan as 0/0
FloatInf(sign) == <<sign, 0>>
FloatNan == <<0, 0>>
IsFiniteFloat(a) == a[2] # 0

\* float(value) of a number that float() accepts
ToFloat(value) ==
  CASE value.t = "nan" -> FloatNan
    [] value.t = "inf" -> FloatInf(value.v)
    [] OTHER -> PyFloatNum(value).val.v

\* sorted(values): ascending, equal values keep their order
RECURSIVE InsertAscending(_, _)
InsertAscending(sorted, x) ==
  IF sorted = <<>> THEN <<x>>
  ELSE IF RLess(x, Head(sorted)) THEN <<x>> \o sorted
  ELSE <<Head(sorted)>> \o InsertAscending(Tail(sorted), x)

RECURSIVE SortAscending(_)
SortAscending(values) ==
  IF values = <<>> THEN <<>>
  ELSE InsertAscending(SortAscending(SubSeq(values, 1, Len(values) - 1)),
                       values[Len(values)])

RECURSIVE ColumnValues(_, _)
ColumnValues(data, column) ==
  IF data = <<>> THEN <<>>
  ELSE LET value == RecGet(Head(data), column)
       IN  (IF value # NoneV /\ IsIntOrFloat(value) /\ ~IsBool(value) THEN <<ToFloat(value)>> ELSE <<>>)
           \o ColumnValues(Tail(data), column)

_extract_numeric_values(data, column) == SortAscending(ColumnValues(data, column))

RECURSIVE Sum(_)
Sum(values) == IF values = <<>> THEN RInt(0) ELSE RAdd(Head(values), Sum(Tail(values)))

\* statistics.mean: the exact sum over n; an inf makes it that inf, a nan or
\* both infs make it nan
Mean(values) ==
  LET infinite == {values[i] : i \in DOMAIN values} \ {v \in Listed(values) : IsFiniteFloat(v)}
  IN  IF infinite = {} THEN RDiv(Sum(values), RInt(Len(values)))
      ELSE IF Cardinality(infinite) = 1 THEN CHOOSE v \in infinite : TRUE
      ELSE FloatNan

\* statistics.median: sorts, then the middle element or the mean of the two
Median(values) ==
  LET s == SortAscending(values)
      n == Len(s)
  IN  IF n % 2 = 1 THEN s[n \div 2 + 1]
      ELSE RDiv(RAdd(s[n \div 2], s[n \div 2 + 1]), RInt(2))

SquaredDeviations(values, m) ==
  [i \in DOMAIN values |-> RMul(RSub(values[i], m), RSub(values[i], m))]

\* statistics.stdev: the square root of the sample variance; the model keeps
\* the number under the root
Stdev(values) ==
  [sqrt_of |-> RDiv(Sum(SquaredDeviations(values, Mean(values))), RInt(Len(values) - 1))]

ZeroStd == [sqrt_of |-> RInt(0)]

RECURSIVE Min(_)
Min(values) ==
  IF Len(values) = 1 THEN values[1]
  ELSE LET m == Min(Tail(values)) IN IF RLess(m, Head(values)) THEN m ELSE Head(values)

RECURSIVE Max(_)
Max(values) ==
  IF Len(values) = 1 THEN values[1]
  ELSE LET m == Max(Tail(values)) IN IF RLess(Head(values), m) THEN m ELSE Head(values)

\* the third quartile taken as three times the first quartile's index
q3_idx_scaled(n) == 3 * (n \div 4)

q1_idx(n) == n \div 4
q3_idx(n) == (3 * n) \div 4

\* lines 143-158: the entry of one column; list index k is position k + 1
StatEntry(values) ==
  LET n == Len(values)
  IN  [mean |-> Mean(values),
       median |-> Median(values),
       q1 |-> values[q1_idx(n) + 1],
       q3 |-> values[q3_idx(n) + 1],
       std |-> IF Len(values) > 1 THEN Stdev(values) ELSE ZeroStd,
       min |-> Min(values),
       max |-> Max(values),
       count |-> n]

EmptyEntry ==
  [mean |-> RInt(0), median |-> RInt(0), q1 |-> RInt(0), q3 |-> RInt(0),
   std |-> ZeroStd, min |-> RInt(0), max |-> RInt(0), count |-> 0]

\* a summary that reports every field of the data, zero-filled when the
\* field has no numeric observation
statistical_summary_zero_filled(data) ==
  LET cols == UNION {DOMAIN data[i] : i \in DOMAIN data} \ {"id"}
  IN  [col \in cols |->
         IF Len(_extract_numeric_values(data, col)) > 0
         THEN StatEntry(_extract_numeric_values(data, col))
         ELSE EmptyEntry]

statistical_summary(data) ==
  LET numeric_cols == _get_numeric_columns(data)
      kept == {i \in DOMAIN numeric_cols :
                 Len(_extract_numeric_values(data, numeric_cols[i])) > 0}
  IN  [col \in {numeric_cols[i] : i \in kept} |->
         StatEntry(_extract_numeric_values(data, col))]

\* a Pearson coefficient r is kept exactly as its sign and its square
Coefficient(sgn, sq) == [sgn |-> sgn, sq |-> sq]
ZeroCoefficient == Coefficient(0, RInt(0))
Sign(a) == IF a[1] > 0 THEN 1 ELSE IF a[1] < 0 THEN -1 ELSE 0

Products(x, mean_x, y, mean_y) ==
  [i \in DOMAIN x |-> RMul(RSub(x[i], mean_x), RSub(y[i], mean_y))]

\* the coefficient nan
NanCoefficient == Coefficient(0, FloatNan)

\* An inf or nan element makes its own deviation from the mean nan (the mean
\* is inf or nan), so both sums are nan, `denominator == 0` is false and the
\* quotient is nan.
_pearson_correlation(x, y) ==
  IF Len(x) # Len(y) \/ Len(x) < 2 THEN ZeroCoefficient
  ELSE IF \E i \in DOMAIN x : ~IsFiniteFloat(x[i]) \/ ~IsFiniteFloat(y[i])
  THEN NanCoefficient
  ELSE LET mean_x == Mean(x)
           mean_y == Mean(y)
           numerator == Sum(Products(x, mean_x, y, mean_y))
           under_root == RMul(Sum(SquaredDeviations(x, mean_x)),
                              Sum(SquaredDeviations(y, mean_y)))
       IN  IF under_root = RInt(0) THEN ZeroCoefficient
           ELSE Coefficient(Sign(numerator), RDiv(RMul(numerator, numerator), under_root))

\* abs(corr), as its square
AbsCorr(corr) == corr.sq

\* hash(): lists and dicts are unhashable
Hashable(value) == value.t \notin {"list", "dict"}

\* dict key equality: numbers (bools included) by value, the rest as they are
KeyEq(a, b) ==
  IF a.t \in {"bool", "int", "float"} /\ b.t \in {"bool", "int", "float"}
  THEN NumValue(a) = NumValue(b)
  ELSE a = b

\* target_mapping is the sequence of distinct target values in first-seen
\* order; the code of a value is its position minus one
CodeOf(target_mapping, value) ==
  (CHOOSE k \in DOMAIN target_mapping : KeyEq(target_mapping[k], value)) - 1

Mapped(target_mapping, value) ==
  \E k \in DOMAIN target_mapping : KeyEq(target_mapping[k], value)

\* lines 172-184: the encoded target per record (None or an int), or TypeError
RECURSIVE EncodeTarget(_, _, _, _)
EncodeTarget(data, dependent_variable, target_mapping, target_values) ==
  IF data = <<>> THEN Ret(target_values)
  ELSE LET target_val == RecGet(Head(data), dependent_variable)
       IN  IF target_val = NoneV
           THEN EncodeTarget(Tail(data), dependent_variable, target_mapping,
                             Append(target_values, NoneV))
           ELSE IF ~Hashable(target_val) THEN Raise("TypeError")
           ELSE LET mapping == IF Mapped(target_mapping, target_val) THEN target_mapping
                               ELSE Append(target_mapping, target_val)
                IN  EncodeTarget(Tail(data), dependent_variable, mapping,
                                 Append(target_values, IntV(CodeOf(mapping, target_val))))

\* lines 192-200: the (value, code) pairs of one column
RECURSIVE Pairs(_, _, _, _)
Pairs(data, col, target_values, i) ==
  IF i > Len(data) THEN <<>>
  ELSE LET val == RecGet(data[i], col)
       IN  (IF /\ i <= Len(target_values) /\ target_values[i] # NoneV
               /\ val # NoneV /\ IsIntOrFloat(val)
            THEN <<[value |-> ToFloat(val), code |-> target_values[i]]>>
            ELSE <<>>)
           \o Pairs(data, col, target_values, i + 1)

\* a column is ranked as soon as it has one pair
AnyPair(pairs) == Len(pairs) > 0

\* line 202
EnoughPairs(pairs) == Len(pairs) > 1

PairValues(pairs) == [i \in DOMAIN pairs |-> pairs[i].value]
PairCodes(pairs) == [i \in DOMAIN pairs |-> RInt(pairs[i].code.v)]

\* lines 190-205: the (column, abs(corr)) entries in numeric_cols order
RECURSIVE Correlations(_, _, _)
Correlations(data, target_values, numeric_cols) ==
  IF numeric_cols = <<>> THEN <<>>
  ELSE LET col == Head(numeric_cols)
           pairs == Pairs(data, col, target_values, 1)
       IN  (IF EnoughPairs(pairs)
            THEN <<[col |-> col,
                    abs_corr |-> AbsCorr(_pearson_correlation(PairValues(pairs),
                                                              PairCodes(pairs)))]>>
            ELSE <<>>)
           \o Correlations(data, target_values, Tail(numeric_cols))

\* an unstable sort: an entry goes before the entries it ties with
RECURSIVE InsertBeforeTies(_, _)
InsertBeforeTies(sorted, e) ==
  IF sorted = <<>> THEN <<e>>
  ELSE IF RLeq(Head(sorted).abs_corr, e.abs_corr) THEN <<e>> \o sorted
  ELSE <<Head(sorted)>> \o InsertBeforeTies(Tail(sorted), e)

\* list.sort(key=lambda x: x[1], reverse=True): descending, stable
RECURSIVE InsertDescending(_, _)
InsertDescending(sorted, e) ==
  IF sorted = <<>> THEN <<e>>
  ELSE IF RLess(Head(sorted).abs_corr, e.abs_corr) THEN <<e>> \o sorted
  ELSE <<Head(sorted)>> \o InsertDescending(Tail(sorted), e)

RECURSIVE SortDescending(_)
SortDescending(correlations) ==
  IF correlations = <<>> THEN <<>>
  ELSE InsertDescending(SortDescending(SubSeq(correlations, 1, Len(correlations) - 1)),
                        correlations[Len(correlations)])

\* correlations[:top_n] for top_n >= 0
Truncate(correlations, top_n) ==
  SubSeq(correlations, 1, IF top_n < Len(correlations) THEN top_n ELSE Len(correlations))

select_best_features(data, dependent_variable, top_n) ==
  LET encoded == EncodeTarget(data, dependent_variable, <<>>, <<>>)
  IN  IF encoded.exc # "none" THEN [exc |-> encoded.exc, val |-> <<>>]
      ELSE [exc |-> "none",
            val |-> Truncate(SortDescending(Correlations(data, encoded.val,
                                                         _get_numeric_columns(data))),
                             top_n)]

\* a / b < c / d for a, c >= 0 and b, d > 0, by continued fractions (no product)
RECURSIVE FracLess(_, _, _, _)
FracLess(a, b, c, d) ==
  IF a \div b # c \div d THEN a \div b < c \div d
  ELSE IF c % d = 0 THEN FALSE
  ELSE IF a % b = 0 THEN TRUE
  ELSE FracLess(d, c % d, b, a % b)

\* the ten-thousandths in round(|corr|, 4): the least k in lo..hi with
\* |corr| < (2k + 1) / 20000, found by bisection on the square of |corr|
RECURSIVE NearestTenThousandth(_, _, _)
NearestTenThousandth(sq, lo, hi) ==
  IF lo = hi THEN lo
  ELSE LET k == (lo + hi) \div 2
       IN  IF FracLess(sq[1], sq[2], (2 * k + 1) * (2 * k + 1), 4 * Pow10(8))
           THEN NearestTenThousandth(sq, lo, k)
           ELSE NearestTenThousandth(sq, k + 1, hi)

\* round(corr, 4) of a finite coefficient, as an exact rational
Round4(corr) == Rat(corr.sgn * NearestTenThousandth(corr.sq, 0, Pow10(4)), Pow10(4))

\* lines 255-261: the (value, value) pairs of two columns
RECURSIVE MatrixPairs(_, _, _)
MatrixPairs(data, col1, col2) ==
  IF data = <<>> THEN <<>>
  ELSE LET val1 == RecGet(Head(data), col1)
           val2 == RecGet(Head(data), col2)
       IN  (IF /\ val1 # NoneV /\ val2 # NoneV
               /\ IsIntOrFloat(val1) /\ IsIntOrFloat(val2)
            THEN <<[x |-> ToFloat(val1), y |-> ToFloat(val2)]>>
            ELSE <<>>)
           \o MatrixPairs(Tail(data), col1, col2)

\* a diagonal that is computed like any other entry of a constant column
DiagonalEntryComputed == RInt(0)

\* corr_matrix[col1][col1]
DiagonalEntry == RInt(1)

\* corr_matrix[col1][col2] of a pair of columns with fewer than two pairs
DefaultEntry == RInt(0)

\* a matrix of which only the entries above the diagonal are computed
MatrixEntryUpper(data, col1, col2) ==
  IF col1 = col2 THEN DiagonalEntry
  ELSE LET pairs == MatrixPairs(data, col1, col2)
       IN  IF Len(pairs) > 1 /\ StrLess(col1, col2)
           THEN Round4(_pearson_correlation([i \in DOMAIN pairs |-> pairs[i].x],
                                            [i \in DOMAIN pairs |-> pairs[i].y]))
           ELSE DefaultEntry

\* lines 249-269: corr_matrix[col1][col2]
MatrixEntry(data, col1, col2) ==
  IF col1 = col2 THEN DiagonalEntry
  ELSE LET pairs == MatrixPairs(data, col1, col2)
       IN  IF Len(pairs) > 1
           THEN Round4(_pearson_correlation([i \in DOMAIN pairs |-> pairs[i].x],
                                            [i \in DOMAIN pairs |-> pairs[i].y]))
           ELSE DefaultEntry

\* a report whose total_columns counts every field of every record
total_columns_union(data) == Cardinality(UNION {DOMAIN data[i] : i \in DOMAIN data})

\* line 287
total_records(data) == Len(data)

\* line 288
total_columns(data) == IF data # <<>> THEN Cardinality(DOMAIN data[1]) ELSE 0

get_correlation_matrix(data) ==
  LET cols == Listed(_get_numeric_columns(data))
  IN  [col1 \in cols |-> [col2 \in cols |-> MatrixEntry(data, col1, col2)]]

\* ------------------------------------------------------------ SWAPITransformer
SwapiNullWords == {<<"u", "n", "k", "n", "o", "w", "n">>, <<"n", "/", "a">>,
                   <<"n", "o", "n", "e">>}

\* src/transform.py 54-61: `not value` first, then value.lower() outside the
\* try, so a truthy value that is not a string raises AttributeError
SWAPITransformer_parse_numeric(value) ==
  IF ~Truthy(value) THEN Ret(NoneV)
  ELSE IF ~IsStr(value) THEN Raise("AttributeError")
  ELSE IF Lower(value.v) \in SwapiNullWords THEN Ret(NoneV)
  ELSE LET r == PyFloatStr(RemoveCommas(value.v))
       IN  IF r.exc = "ValueError" THEN Ret(NoneV) ELSE r

\* str.rstrip('/')
RECURSIVE RStripSlash(_)
RStripSlash(s) ==
  IF s # <<>> /\ s[Len(s)] = "/" THEN RStripSlash(SubSeq(s, 1, Len(s) - 1)) ELSE s

\* str.split('/')[-1]: what follows the last slash
RECURSIVE LastPart(_)
LastPart(s) ==
  IF s = <<>> \/ s[Len(s)] = "/" THEN <<>>
  ELSE Append(LastPart(SubSeq(s, 1, Len(s) - 1)), s[Len(s)])

\* int(str): surrounding whitespace and one sign are accepted
PyIntStr(s) ==
  LET b == Strip(s)
      signed == b # <<>> /\ Head(b) \in {"+", "-"}
      u == IF signed THEN Tail(b) ELSE b
  IN  IF u # <<>> /\ AllDigits(u)
      THEN Ret(IntV((IF signed /\ Head(b) = "-" THEN -1 ELSE 1) * DigitsValue(u)))
      ELSE Raise("ValueError")

\* src/transform.py 36-42: url.rstrip is inside the try, but only ValueError
\* and IndexError are caught
_extract_id_from_url(url) ==
  IF ~Truthy(url) THEN Ret(NoneV)
  ELSE IF ~IsStr(url) THEN Raise("AttributeError")
  ELSE LET r == PyIntStr(LastPart(RStripSlash(url.v)))
       IN  IF r.exc = "ValueError" THEN Ret(NoneV) ELSE r

\* the members of a set of positions, ascending
RECURSIVE Ascending(_)
Ascending(S) ==
  IF S = {} THEN <<>>
  ELSE LET least == CHOOSE a \in S : \A b \in S : a <= b
       IN  <<least>> \o Ascending(S \ {least})

\* the elements `for f in value` yields; the raw relations modelled are
\* lists, strings and values that are not iterable
Iterated(value) ==
  CASE value.t = "list" -> Ret(value.v)
    [] value.t = "str" -> Ret([i \in DOMAIN value.v |-> StrV(<<value.v[i]>>)])
    [] OTHER -> Raise("TypeError")

\* the entry's own position is dropped with it
RelationIdsCompacted(value) ==
  LET elements == Iterated(value)
      ids == [i \in DOMAIN elements.val |-> _extract_id_from_url(elements.val[i])]
      kept == Ascending({i \in DOMAIN ids : ids[i].exc = "none"})
  IN  IF elements.exc # "none" THEN elements
      ELSE Ret(ListV([k \in DOMAIN kept |-> ids[kept[k]].val]))

\* [self._extract_id_from_url(f) for f in record.get(key, [])]
RelationIds(value) ==
  LET elements == Iterated(value)
      ids == [i \in DOMAIN elements.val |-> _extract_id_from_url(elements.val[i])]
  IN  IF elements.exc # "none" THEN elements
      ELSE IF \E i \in DOMAIN ids : ids[i].exc # "none" THEN Raise("AttributeError")
      ELSE Ret(ListV([i \in DOMAIN ids |-> ids[i].val]))

\* the keys of each transformed record: the numeric attributes, the single
\* locators (output key, raw key), the relations (output key, raw key) and
\* the attributes copied as they are
Schema ==
  [people |->
     [numeric |-> {"height", "mass"},
      locators |-> {<<"id", "url">>, <<"homeworld_id", "homeworld">>},
      relations |-> {<<"film_ids", "films">>, <<"species_ids", "species">>,
                     <<"vehicle_ids", "vehicles">>, <<"starship_ids", "starships">>},
      copied |-> {"name", "hair_color", "skin_color", "eye_color", "birth_year",
                  "gender", "created", "edited", "url"}],
   planets |->
     [numeric |-> {"rotation_period", "orbital_period", "diameter", "surface_water",
                   "population"},
      locators |-> {<<"id", "url">>},
      relations |-> {<<"resident_ids", "residents">>, <<"film_ids", "films">>},
      copied |-> {"name", "climate", "gravity", "terrain", "created", "edited", "url"}],
   starships |->
     [numeric |-> {"cost_in_credits", "length", "max_atmosphering_speed", "passengers",
                   "cargo_capacity", "hyperdrive_rating", "MGLT"},
      locators |-> {<<"id", "url">>},
      relations |-> {<<"pilot_ids", "pilots">>, <<"film_ids", "films">>},
      copied |-> {"name", "model", "manufacturer", "crew", "consumables",
                  "starship_class", "created", "edited", "url"}]]

RawKey(pairs, key) == (CHOOSE p \in pairs : p[1] = key)[2]
OutKeys(pairs) == {p[1] : p \in pairs}

\* record.get(key, [])
RelationOf(record, key) == IF key \in DOMAIN record THEN record[key] ELSE EmptyList

\* the dict literal in the try block of transform_people, transform_planets
\* and transform_starships: any exception leaves the literal unfinished
TransformedRecord(kind, record) ==
  LET schema == Schema[kind]
      numbers == [k \in schema.numeric |->
                    SWAPITransformer_parse_numeric(RecGet(record, k))]
      single == [k \in OutKeys(schema.locators) |->
                   _extract_id_from_url(RecGet(record, RawKey(schema.locators, k)))]
      lists == [k \in OutKeys(schema.relations) |->
                  RelationIds(RelationOf(record, RawKey(schema.relations, k)))]
      raised == \/ \E k \in DOMAIN numbers : numbers[k].exc # "none"
                \/ \E k \in DOMAIN single : single[k].exc # "none"
                \/ \E k \in DOMAIN lists : lists[k].exc # "none"
  IN  IF raised THEN Raise("Exception")
      ELSE Ret([k \in schema.numeric \cup OutKeys(schema.locators)
                       \cup OutKeys(schema.relations) \cup schema.copied |->
                  IF k \in schema.numeric THEN numbers[k].val
                  ELSE IF k \in OutKeys(schema.locators) THEN single[k].val
                  ELSE IF k \in OutKeys(schema.relations) THEN lists[k].val
                  ELSE RecGet(record, k)])

\* ------------------------------------------------------------ the stage scripts together
\* a staging file: absent, just opened for writing (empty), written in part,
\* or written and closed; `of` is the value json.dump was given
Absent == [text |-> "absent", of |-> NoneV]
Opened == [text |-> "empty", of |-> NoneV]
Partial(value) == [text |-> "partial", of |-> value]
Dumped(value) == [text |-> "complete", of |-> value]

\* json.load of a file: the dumped value (the values dumped here are dicts
\* of lists of JSON values, which json reads back as they were); an empty or
\* truncated text raises JSONDecodeError
json_load(content) ==
  IF content.text = "complete" THEN Ret(content.of) ELSE Raise("JSONDecodeError")

\* os.path.exists
Exists(filesystem, path) == filesystem[path].text # "absent"

HandoffDirs == {"/app/data", "/mnt/data"}
HandoffNames == {"raw_data.json", "1.raw_data.json", "2.transformed_data.json",
                 "analysis_report.json"}
Paths == HandoffDirs \X HandoffNames

\* os.getenv('OUTPUT_DIR', '/app/data'), os.getenv('DATA_DIR', '/app/data')
DirOf(env) == IF env = "default" THEN "/app/data" ELSE env

\* run_extract.py line 16
ExtractOutput(env) == <<DirOf(env), "raw_data.json">>
\* run_transform.py line 13
TransformPolled == <<"/app/data", "1.raw_data.json">>
\* run_transform.py line 19
TransformInput(env) == <<DirOf(env), "1.raw_data.json">>
\* run_transform.py line 32
TransformOutput(env) == <<DirOf(env), "2.transformed_data.json">>
\* run_transform.py line 42
ReportFile(env) == <<DirOf(env), "analysis_report.json">>
\* run_load.py line 12
LoadPolled == <<"/app/data", "2.transformed_data.json">>
\* run_load.py line 19
LoadInput(env) == <<DirOf(env), "2.transformed_data.json">>

\* extract.py 86-90: the dict extract_all returns
Extracted(people, planets, starships) ==
  [people |-> people, planets |-> planets, starships |-> starships]

\* raw_data.get('characters', [])
RawCharacters(raw_data) ==
  IF "characters" \in DOMAIN raw_data THEN raw_data.characters ELSE <<>>

\* transform_characters on a list of dicts, as a function of the list
RECURSIVE transform_characters(_)
transform_characters(characters) ==
  IF characters = <<>> THEN <<>>
  ELSE (IF TryBody(Head(characters)).kept THEN <<TryBody(Head(characters)).rec>> ELSE <<>>)
       \o transform_characters(Tail(characters))

\* transform.py 83-92
transform_all(raw_data) == [characters |-> transform_characters(RawCharacters(raw_data))]

\* ------------------------------------------------------------ state
VARIABLES
  characters_data,   \* transform_characters: the argument
  idx,               \* number of elements the for loop has consumed
  transformed,       \* the list being built
  errors,            \* what logger.error has recorded: [name, exc]
  pc,                \* "idle", "loop", "returned" or "raised"
  pn_value,          \* _parse_numeric called on its own: the argument
  pn_result,         \* and its outcome
  pn_pc,             \* "idle", "ready" or "done"
  data,              \* DescriptiveAnalysis: self.data
  dependent_variable,\* select_best_features: its arguments
  top_n,
  numeric_cols,      \* the local numeric_cols of the last method run
  stats,             \* what statistical_summary returned
  best_features,     \* the outcome of select_best_features
  corr_matrix,       \* what get_correlation_matrix returned
  report,            \* what generate_report returned
  saved,             \* what save_report returned
  an_pc,             \* "idle", "ready", "summary", "features", "matrix",
                     \* "reported", "saved" or "failed"
  corr_x,            \* _pearson_correlation called on its own: the arguments
  corr_y,
  corr_result,       \* _pearson_correlation(x, y)
  corr_swapped,      \* _pearson_correlation(y, x)
  corr_pc,           \* "idle", "ready" or "done"
  url,               \* _fetch_all_pages: the local url
  all_results,       \* the local all_results
  requests_made,     \* the requests issued so far: [url, response]
  ex_result,         \* what _fetch_all_pages returned
  ex_pc,             \* "idle", "loop" or "returned"
  stage,             \* the script that runs: "run_transform", "run_load" or "load"
  data_dir,          \* DATA_DIR: "default", "/app/data" or "other"
  files,             \* the staging files that exist
  polls,             \* times the script slept waiting for its file
  exit_status,       \* the exit status, -1 while the script runs
  st_pc,             \* "idle", "wait", "check", "read" or "exited"
  uri_ok,            \* load: MongoClient accepts url_conexion
  name_ok,           \* the client accepts database_name
  reachable,         \* the server answers
  truth_testing,     \* bool() of a Database or Collection: "true" or "raises"
  client,            \* self.client: "none", "open" or "closed"
  db,                \* self.db: "none" or "set"
  collection,        \* the documents of the characters collection, in natural order
  load_data,         \* load_characters: characters_data
  replace,           \* and replace
  logged,            \* number of logger.error calls
  ld_result,         \* the outcome of load_all
  runs,              \* number of load_all calls started
  once,              \* the collection after the first call
  ld_pc,             \* "idle", "start", "connected", "refused", "finally", "returned"
                     \* or "raised"
  sw_kind,           \* SWAPITransformer: "people", "planets" or "starships"
  sw_data,           \* the argument of transform_people / _planets / _starships
  sw_idx,            \* number of elements the for loop has consumed
  sw_transformed,    \* the list being built
  sw_errors,         \* the positions logger.error was called for
  sw_parsed,         \* SWAPITransformer._parse_numeric(pn_value)
  sw_pc,             \* "idle", "loop", "returned", "parse" or "parsed"
  h_dir,             \* the scripts together: OUTPUT_DIR and DATA_DIR
  fs,                \* the staging files, by (directory, name)
  x_data,            \* run_extract: data
  px,                \* "idle", "start", "extracted", "opened" or "done"
  tr_raw,            \* run_transform: raw_data
  tr_out,            \* transformed_data
  pt,                \* "idle", "wait", "check", "transformed", "opened", "saved",
                     \* "done", "exited" or "crashed"
  ld_read,           \* run_load: the file as json.load found it
  pl,                \* "idle", "wait", "check", "parsed", "done", "exited" or "crashed"
  h_polls            \* times run_transform (t) and run_load (l) slept

vars == <<characters_data, idx, transformed, errors, pc, pn_value, pn_result, pn_pc,
          data, dependent_variable, top_n, numeric_cols, stats, best_features,
          corr_matrix, report, saved, an_pc,
          corr_x, corr_y, corr_result, corr_swapped, corr_pc,
          url, all_results, requests_made, ex_result, ex_pc,
          stage, data_dir, files, polls, exit_status, st_pc,
          uri_ok, name_ok, reachable, truth_testing, client, db, collection, load_data,
          replace, logged, ld_result, runs, once, ld_pc,
          sw_kind, sw_data, sw_idx, sw_transformed, sw_errors, sw_parsed, sw_pc,
          h_dir, fs, x_data, px, tr_raw, tr_out, pt, ld_read, pl, h_polls>>

transform_vars == <<characters_data, idx, transformed, errors, pc>>
parse_vars == <<pn_value, pn_result, pn_pc>>
analysis_vars == <<data, dependent_variable, top_n, numeric_cols, stats, best_features,
                   corr_matrix, report, saved, an_pc>>
correlation_vars == <<corr_x, corr_y, corr_result, corr_swapped, corr_pc>>
extract_vars == <<url, all_results, requests_made, ex_result, ex_pc>>
stage_vars == <<stage, data_dir, files, polls, exit_status, st_pc>>
load_vars == <<uri_ok, name_ok, reachable, truth_testing, client, db, collection, load_data,
               replace, logged, ld_result, runs, once, ld_pc>>
swapi_vars == <<sw_kind, sw_data, sw_idx, sw_transformed, sw_errors, sw_parsed, sw_pc>>
handoff_vars == <<h_dir, fs, x_data, px, tr_raw, tr_out, pt, ld_read, pl, h_polls>>
late_vars == <<swapi_vars, handoff_vars>>
io_vars == <<extract_vars, stage_vars, load_vars, late_vars>>

\* ------------------------------------------------------------ inputs
SeqsUpTo(S, n) == UNION {[1..k -> S] : k \in 0..n}

Without(d, key) == [k \in DOMAIN d \ {key} |-> d[k]]
With(d, key, value) == (key :> value) @@ d

Harry ==
  [id |-> IntV(1), name |-> StrV(<<"H">>), alternate_names |-> ListV(<<StrV(<<"P">>)>>),
   house |-> StrV(<<"G">>), yearOfBirth |-> IntV(1980), ancestry |-> StrV(<<"h">>),
   gender |-> StrV(<<"m">>), species |-> StrV(<<"h">>), wizard |-> BoolV(TRUE),
   wand |-> DictV([wood |-> StrV(<<"h">>), core |-> StrV(<<"p">>), length |-> IntV(11)]),
   patronus |-> StrV(<<"s">>), hogwartsStudent |-> BoolV(TRUE),
   hogwartsStaff |-> BoolV(FALSE), actor |-> StrV(<<"D">>), alternate_actors |-> EmptyList,
   alive |-> BoolV(TRUE), image |-> StrV(<<>>), eyeColour |-> StrV(<<"g">>),
   hairColour |-> StrV(<<"b">>), dateOfBirth |-> StrV(<<"3", "1">>)]

Draco == With(With(With(Harry, "id", IntV(2)), "name", StrV(<<"D">>)), "house", StrV(<<"S">>))

Sparse == [id |-> IntV(3), wizard |-> BoolV(TRUE)]

\* records that differ in the gate, and elements that make an iteration fail
GatePool ==
  {DictV(Harry), DictV(Draco),
   DictV(With(Harry, "wizard", BoolV(FALSE))),
   DictV(With(Harry, "wizard", NoneV)),
   DictV(Without(Harry, "wizard")),
   DictV(With(Harry, "wizard", StrV(<<"n", "o">>))),
   DictV(With(With(Harry, "wizard", BoolV(FALSE)), "wand", NoneV)),
   DictV(With(Draco, "wand", NoneV)),
   NoneV,
   StrV(<<"H">>)}

GateValues ==
  {IntV(0), IntV(1), FloatV(<<0, 1>>), StrV(<<>>), EmptyList, ListV(<<IntV(0)>>),
   DictV(EmptyDict), NanV}

YearValues ==
  {NoneV, IntV(1980), IntV(0), FloatV(<<3961, 2>>), BoolV(TRUE), BigIntV(1), InfV(1),
   StrV(<<"1", "9", "8", "0">>), StrV(<<"1", ",", "9", "8", "0">>),
   StrV(<<"-", "1", ".", "5">>), StrV(<<"u", "n", "k", "n", "o", "w", "n">>),
   StrV(<<"a", "b", "c">>), StrV(<<"i", "n", "f">>), StrV(<<"N", "a", "N">>),
   StrV(<<>>), EmptyList}

LengthValues ==
  {NoneV, IntV(12), FloatV(<<25, 2>>), BoolV(FALSE), BigIntV(1), InfV(-1), NanV,
   StrV(<<"1", "2", ".", "5">>), StrV(<<"1", "2", ",", "5">>),
   StrV(<<"U", "n", "k", "n", "o", "w", "n">>), StrV(<<"l", "o", "n", "g">>),
   StrV(<<"I", "n", "f">>), StrV(<<"-", "i", "n", "f">>), StrV(<<"n", "a", "n">>),
   EmptyList, DictV(EmptyDict)}

\* records that differ in one numeric field or in the keys they carry
FieldPool ==
  {DictV(With(Harry, "yearOfBirth", y)) : y \in YearValues}
  \cup {DictV(With(Harry, "wand", DictV([length |-> l]))) : l \in LengthValues}
  \cup {DictV(Without(Harry, k)) : k \in DOMAIN Harry \ {"wizard"}}
  \cup {DictV(With(Harry, "wizard", g)) : g \in GateValues}
  \cup {DictV(Sparse), DictV(With(Sparse, "wand", DictV(EmptyDict))),
        DictV(With(Harry, "wand", StrV(<<"h">>))), DictV(With(Harry, "wand", EmptyList)),
        EmptyList, IntV(7)}

ParseAlphabet == {"1", "2", ",", ".", "-", " ", "n", "N", "a", "/", "i", "f"}

ParseWords ==
  {<<"u", "n", "k", "n", "o", "w", "n">>, <<"U", "N", "K", "N", "O", "W", "N">>,
   <<"U", "n", "k", "n", "o", "w", "n">>, <<"n", "o", "n", "e">>, <<"N", "o", "n", "e">>,
   <<"1", ",", "9", "8", "0">>, <<"1", "9", "8", "0">>, <<"1", "2", ".", "5">>,
   <<"I", "n", "f", "i", "n", "i", "t", "y">>, <<"+", "1", "2">>, <<"a", "b", "c">>,
   <<" ", "u", "n", "k", "n", "o", "w", "n">>}

ParseInputs ==
  {NoneV, BoolV(TRUE), BoolV(FALSE), IntV(0), IntV(-7), IntV(1980), BigIntV(1),
   BigIntV(-1), FloatV(<<25, 2>>), InfV(1), InfV(-1), NanV, EmptyList,
   ListV(<<IntV(1)>>), DictV(EmptyDict), DictV([length |-> IntV(1)])}
  \cup {StrV(w) : w \in ParseWords}
  \cup {StrV(w) : w \in SeqsUpTo(ParseAlphabet, MaxStrLen)}

\* ------------------------------------------------------------ transform_characters
ParseIdle == pn_value = NoneV /\ pn_result = Ret(NoneV) /\ pn_pc = "idle"

TransformIdle ==
  /\ characters_data = <<>> /\ idx = 0 /\ transformed = <<>> /\ errors = <<>>
  /\ pc = "idle"

NoFeatures == [exc |-> "none", val |-> <<>>]

ExtractIdle ==
  /\ url = NoneV /\ all_results = <<>> /\ requests_made = <<>> /\ ex_result = <<>>
  /\ ex_pc = "idle"

StageIdle ==
  /\ stage = "load" /\ data_dir = "default" /\ files = {} /\ polls = 0
  /\ exit_status = -1 /\ st_pc = "idle"

LoadIdle ==
  /\ uri_ok = TRUE /\ name_ok = TRUE /\ reachable = TRUE /\ truth_testing = "true"
  /\ client = "none" /\ db = "none" /\ collection = <<>> /\ load_data = <<>>
  /\ replace = TRUE /\ logged = 0 /\ ld_result = Ret(NoneV) /\ runs = 0 /\ once = <<>>
  /\ ld_pc = "idle"

SwapiIdle ==
  /\ sw_kind = "people" /\ sw_data = <<>> /\ sw_idx = 0 /\ sw_transformed = <<>>
  /\ sw_errors = <<>> /\ sw_parsed = Ret(NoneV) /\ sw_pc = "idle"

\* a raw file that was not written by this run of the pipeline
Seed == Dumped([characters |-> <<DictV(Harry), DictV(With(Draco, "wizard", BoolV(FALSE)))>>])

NoPolls == [t |-> 0, l |-> 0]

HandoffIdle ==
  /\ h_dir = "default" /\ fs = [p \in Paths |-> Absent]
  /\ x_data = Extracted(<<>>, <<>>, <<>>) /\ px = "idle"
  /\ tr_raw = EmptyDict /\ tr_out = EmptyDict /\ pt = "idle"
  /\ ld_read = Absent /\ pl = "idle" /\ h_polls = NoPolls

LateIdle == SwapiIdle /\ HandoffIdle

IoIdle == ExtractIdle /\ StageIdle /\ LoadIdle /\ LateIdle

CorrelationIdle ==
  /\ corr_x = <<>> /\ corr_y = <<>> /\ corr_result = ZeroCoefficient
  /\ corr_swapped = ZeroCoefficient /\ corr_pc = "idle"

AnalysisIdle ==
  /\ data = <<>> /\ dependent_variable = "house" /\ top_n = 0
  /\ numeric_cols = <<>> /\ stats = EmptyDict /\ best_features = NoFeatures
  /\ corr_matrix = EmptyDict /\ report = EmptyDict /\ saved = FALSE
  /\ an_pc = "idle"

Init ==
  /\ characters_data \in SeqsUpTo(GatePool, MaxChars) \cup SeqsUpTo(FieldPool, MaxWide)
  /\ idx = 0
  /\ transformed = <<>>
  /\ errors = <<>>
  /\ pc = "loop"
  /\ ParseIdle
  /\ AnalysisIdle
  /\ CorrelationIdle
  /\ IoIdle

InLoop == pc = "loop" /\ idx < Len(characters_data)
character == characters_data[idx + 1]

\* line 45-46: the gate is false, continue
SkipCharacter ==
  /\ InLoop
  /\ TryBody(character).exc = "none" /\ ~TryBody(character).kept
  /\ idx' = idx + 1
  /\ UNCHANGED <<characters_data, transformed, errors, pc, parse_vars, analysis_vars,
                 correlation_vars, io_vars>>

\* line 75: the record is appended
AppendCharacter ==
  /\ InLoop
  /\ TryBody(character).kept
  /\ transformed' = Append(transformed, TryBody(character).rec)
  /\ idx' = idx + 1
  /\ UNCHANGED <<characters_data, errors, pc, parse_vars, analysis_vars,
                 correlation_vars, io_vars>>

\* lines 76-78: the iteration raised, the handler logs and continues
LogError ==
  /\ InLoop
  /\ TryBody(character).exc # "none"
  /\ HandlerName(character).exc = "none"
  /\ errors' = Append(errors, [name |-> HandlerName(character).val,
                               exc |-> TryBody(character).exc])
  /\ idx' = idx + 1
  /\ UNCHANGED <<characters_data, transformed, pc, parse_vars, analysis_vars,
                 correlation_vars, io_vars>>

\* line 77: the handler's own character.get raises, and the call with it
HandlerRaises ==
  /\ InLoop
  /\ TryBody(character).exc # "none"
  /\ HandlerName(character).exc # "none"
  /\ pc' = "raised"
  /\ idx' = idx + 1
  /\ UNCHANGED <<characters_data, transformed, errors, parse_vars, analysis_vars,
                 correlation_vars, io_vars>>

\* line 81
Return ==
  /\ pc = "loop" /\ idx = Len(characters_data)
  /\ pc' = "returned"
  /\ UNCHANGED <<characters_data, idx, transformed, errors, parse_vars, analysis_vars,
                 correlation_vars, io_vars>>

Next == SkipCharacter \/ AppendCharacter \/ LogError \/ HandlerRaises \/ Return

Spec == Init /\ [][Next]_vars

\* ------------------------------------------------------------ _parse_numeric alone
InitParse ==
  /\ pn_value \in ParseInputs
  /\ pn_result = Ret(NoneV)
  /\ pn_pc = "ready"
  /\ TransformIdle
  /\ AnalysisIdle
  /\ CorrelationIdle
  /\ IoIdle

ParseNumeric ==
  /\ pn_pc = "ready"
  /\ pn_result' = _parse_numeric(pn_value)
  /\ pn_pc' = "done"
  /\ UNCHANGED <<pn_value, transform_vars, analysis_vars, correlation_vars, io_vars>>

NextParse == ParseNumeric

SpecParse == InitParse /\ [][NextParse]_vars

\* ------------------------------------------------------------ DescriptiveAnalysis runs
Observation(k) == [id |-> IntV(k), year_of_birth |-> IntV(k)]

\* one numeric column, the values 1..MaxObs in any order, each at most once
ObsData ==
  {s \in SeqsUpTo({Observation(k) : k \in 1..MaxObs}, MaxObs) :
     \A i, j \in DOMAIN s : i # j => s[i] # s[j]}

Flat(id, house, year, wand_length, alive) ==
  [id |-> IntV(id), house |-> house, year_of_birth |-> year, wand_length |-> wand_length,
   alive |-> alive, alternate_names |-> EmptyList]

\* flat records with nulls, a boolean column that one record holds as a
\* number, repeated values, three houses and a record of another shape;
\* every number is finite
DataPool ==
  {Flat(1, StrV(<<"G">>), IntV(1), FloatV(<<5, 2>>), BoolV(TRUE)),
   Flat(2, StrV(<<"S">>), IntV(2), NoneV, BoolV(FALSE)),
   Flat(3, NoneV, IntV(3), FloatV(<<1, 1>>), IntV(1)),
   Flat(4, StrV(<<"G">>), NoneV, FloatV(<<3, 1>>), NoneV),
   Flat(6, StrV(<<"R">>), IntV(1), FloatV(<<1, 1>>), StrV(<<"n", "o">>)),
   [id |-> IntV(7), year_of_birth |-> IntV(2), wizard |-> BoolV(TRUE)]}

TargetFields == {"house", "alive", "alternate_names"}

InitAnalysis ==
  /\ data \in ObsData \cup SeqsUpTo(DataPool, MaxData)
  /\ dependent_variable = "house" /\ top_n = 0
  /\ numeric_cols = <<>> /\ stats = EmptyDict /\ best_features = NoFeatures
  /\ corr_matrix = EmptyDict /\ report = EmptyDict /\ saved = FALSE
  /\ an_pc = "ready"
  /\ TransformIdle
  /\ ParseIdle
  /\ CorrelationIdle
  /\ IoIdle

\* generate_report, line 289
StatisticalSummary ==
  /\ an_pc = "ready"
  /\ numeric_cols' = _get_numeric_columns(data)
  /\ stats' = statistical_summary(data)
  /\ an_pc' = "summary"
  /\ UNCHANGED <<data, dependent_variable, top_n, best_features, corr_matrix, report,
                 saved, transform_vars, parse_vars,
                 correlation_vars, io_vars>>

\* generate_report, line 290
SelectBestFeatures ==
  /\ an_pc = "summary"
  /\ \E target \in TargetFields, n \in 0..MaxTopN :
       /\ dependent_variable' = target
       /\ top_n' = n
       /\ best_features' = select_best_features(data, target, n)
  /\ numeric_cols' = _get_numeric_columns(data)
  /\ an_pc' = "features"
  /\ UNCHANGED <<data, stats, corr_matrix, report, saved, transform_vars, parse_vars,
                 correlation_vars, io_vars>>

\* generate_report, line 291
GetCorrelationMatrix ==
  /\ an_pc = "features" /\ best_features.exc = "none"
  /\ numeric_cols' = _get_numeric_columns(data)
  /\ corr_matrix' = get_correlation_matrix(data)
  /\ an_pc' = "matrix"
  /\ UNCHANGED <<data, dependent_variable, top_n, stats, best_features, report, saved,
                 transform_vars, parse_vars,
                 correlation_vars, io_vars>>

\* generate_report, lines 286-295: the dict is complete and returned
ReturnReport ==
  /\ an_pc = "matrix"
  /\ report' = [total_records |-> total_records(data),
                total_columns |-> total_columns(data),
                statistical_summary |-> stats,
                best_features |-> best_features.val,
                correlation_matrix |-> corr_matrix]
  /\ an_pc' = "reported"
  /\ UNCHANGED <<data, dependent_variable, top_n, numeric_cols, stats, best_features,
                 corr_matrix, saved, transform_vars, parse_vars,
                 correlation_vars, io_vars>>

\* save_report, lines 312-316: the report is written
SaveReport ==
  /\ an_pc = "reported"
  /\ saved' = TRUE
  /\ an_pc' = "saved"
  /\ UNCHANGED <<data, dependent_variable, top_n, numeric_cols, stats, best_features,
                 corr_matrix, report, transform_vars, parse_vars,
                 correlation_vars, io_vars>>

\* save_report, lines 317-319: generate_report raised, nothing is written
SaveFails ==
  /\ an_pc = "features" /\ best_features.exc # "none"
  /\ saved' = FALSE
  /\ an_pc' = "failed"
  /\ UNCHANGED <<data, dependent_variable, top_n, numeric_cols, stats, best_features,
                 corr_matrix, report, transform_vars, parse_vars,
                 correlation_vars, io_vars>>

\* one record whose wand_length is not finite, as transform_characters
\* makes it from the length 'nan', 'inf' or '-inf'
NonFiniteData ==
  {<<Flat(1, StrV(<<"G">>), IntV(1), v, BoolV(TRUE))>> : v \in {NanV, InfV(1), InfV(-1)}}

InitQuartiles ==
  /\ data \in ObsData \cup NonFiniteData
  /\ dependent_variable = "house" /\ top_n = 0
  /\ numeric_cols = <<>> /\ stats = EmptyDict /\ best_features = NoFeatures
  /\ corr_matrix = EmptyDict /\ report = EmptyDict /\ saved = FALSE
  /\ an_pc = "ready"
  /\ TransformIdle
  /\ ParseIdle
  /\ CorrelationIdle
  /\ IoIdle

\* statistical_summary called on its own
SpecQuartiles == InitQuartiles /\ [][StatisticalSummary]_vars

NextAnalysis ==
  \/ StatisticalSummary \/ SelectBestFeatures \/ GetCorrelationMatrix
  \/ ReturnReport \/ SaveReport \/ SaveFails

SpecAnalysis == InitAnalysis /\ [][NextAnalysis]_vars

\* ------------------------------------------------------------ _pearson_correlation alone
\* floats a sequence may hold: two finite values, inf and nan
FloatPool == {RInt(1), RInt(2), FloatInf(1), FloatNan}

InitCorrelation ==
  /\ corr_x \in SeqsUpTo(FloatPool, MaxSeq)
  /\ corr_y \in SeqsUpTo(FloatPool, MaxSeq)
  /\ corr_result = ZeroCoefficient /\ corr_swapped = ZeroCoefficient
  /\ corr_pc = "ready"
  /\ TransformIdle
  /\ ParseIdle
  /\ AnalysisIdle
  /\ IoIdle

Correlate ==
  /\ corr_pc = "ready"
  /\ corr_result' = _pearson_correlation(corr_x, corr_y)
  /\ corr_swapped' = _pearson_correlation(corr_y, corr_x)
  /\ corr_pc' = "done"
  /\ UNCHANGED <<corr_x, corr_y, transform_vars, parse_vars, analysis_vars, io_vars>>

NextCorrelation == Correlate

SpecCorrelation == InitCorrelation /\ [][NextCorrelation]_vars

\* the analysis runs and the calls of _pearson_correlation on its own
InitSymmetry == InitAnalysis \/ InitCorrelation

NextSymmetry == NextAnalysis \/ NextCorrelation

SpecSymmetry == InitSymmetry /\ [][NextSymmetry]_vars

\* ------------------------------------------------------------ SWAPITransformer runs
Kinds == {"people", "planets", "starships"}

\* one numeric attribute of each kind; every kind has the relation films
NumericKey == [people |-> "height", planets |-> "diameter", starships |-> "length"]

Locator1 == StrV(<<"a", "/", "1", "/">>)
Locator12 == StrV(<<"a", "/", "1", "2", "/", "/">>)
LocatorX == StrV(<<"a", "/", "x", "/">>)

Raw(kind, locator, number, films) ==
  [k \in {"url", "name", NumericKey[kind], "films"} |->
     IF k = "url" THEN locator
     ELSE IF k = "name" THEN StrV(<<"L">>)
     ELSE IF k = "films" THEN films
     ELSE number]

GoodFilms == ListV(<<Locator1, LocatorX, NoneV, Locator12>>)

\* raw records: relations with unparseable, null and non-string entries, a
\* null, a string and a missing relation, numeric attributes that are
\* already numbers, a locator that is a number
RawPool(kind) ==
  {Raw(kind, Locator1, StrV(<<"1", "2">>), GoodFilms),
   Raw(kind, Locator1, StrV(<<"1", "2">>), ListV(<<Locator1, IntV(5)>>)),
   Raw(kind, Locator1, StrV(<<"1", "2">>), NoneV),
   Raw(kind, Locator1, StrV(<<"1", "2">>), Locator1),
   [url |-> Locator12, name |-> StrV(<<"L">>)],
   Raw(kind, Locator1, IntV(12), GoodFilms),
   Raw(kind, Locator1, IntV(0), GoodFilms),
   Raw(kind, Locator1, FloatV(<<25, 2>>), EmptyList),
   Raw(kind, IntV(7), StrV(<<"1", "2">>), GoodFilms)}

UrlAlphabet == {"a", "/", "1", "2", "-", " "}

\* records whose relation has one entry, every short string
OneEntryPool(kind) ==
  {Raw(kind, Locator1, StrV(<<"1", "2">>), ListV(<<StrV(w)>>)) :
     w \in SeqsUpTo(UrlAlphabet, MaxStrLen)}

InitSwapi ==
  /\ sw_kind \in Kinds
  /\ sw_data \in SeqsUpTo(RawPool(sw_kind), MaxRecords)
                   \cup {<<r>> : r \in OneEntryPool(sw_kind)}
  /\ sw_idx = 0 /\ sw_transformed = <<>> /\ sw_errors = <<>>
  /\ sw_parsed = Ret(NoneV)
  /\ sw_pc = "loop"
  /\ TransformIdle /\ ParseIdle /\ AnalysisIdle /\ CorrelationIdle
  /\ ExtractIdle /\ StageIdle /\ LoadIdle /\ HandoffIdle

\* both _parse_numeric variants are given the same value
InitVariants ==
  /\ pn_value \in ParseInputs
  /\ pn_result = Ret(NoneV)
  /\ pn_pc = "ready"
  /\ sw_kind = "people" /\ sw_data = <<>> /\ sw_idx = 0 /\ sw_transformed = <<>>
  /\ sw_errors = <<>> /\ sw_parsed = Ret(NoneV)
  /\ sw_pc = "parse"
  /\ TransformIdle /\ AnalysisIdle /\ CorrelationIdle
  /\ ExtractIdle /\ StageIdle /\ LoadIdle /\ HandoffIdle

SwapiInLoop == sw_pc = "loop" /\ sw_idx < Len(sw_data)
sw_record == sw_data[sw_idx + 1]

\* src/transform.py 97, 141, 189: the record is appended
SwapiAppend ==
  /\ SwapiInLoop
  /\ TransformedRecord(sw_kind, sw_record).exc = "none"
  /\ sw_transformed' = Append(sw_transformed, TransformedRecord(sw_kind, sw_record).val)
  /\ sw_idx' = sw_idx + 1
  /\ UNCHANGED <<sw_kind, sw_data, sw_errors, sw_parsed, sw_pc, transform_vars, parse_vars,
                 analysis_vars, correlation_vars, extract_vars, stage_vars, load_vars,
                 handoff_vars>>

\* src/transform.py 98-100, 142-144, 190-192: the iteration raised, the
\* handler logs and continues
SwapiLogError ==
  /\ SwapiInLoop
  /\ TransformedRecord(sw_kind, sw_record).exc # "none"
  /\ sw_errors' = Append(sw_errors, sw_idx + 1)
  /\ sw_idx' = sw_idx + 1
  /\ UNCHANGED <<sw_kind, sw_data, sw_transformed, sw_parsed, sw_pc, transform_vars,
                 parse_vars, analysis_vars, correlation_vars, extract_vars, stage_vars,
                 load_vars, handoff_vars>>

\* src/transform.py 103, 147, 195
SwapiReturn ==
  /\ sw_pc = "loop" /\ sw_idx = Len(sw_data)
  /\ sw_pc' = "returned"
  /\ UNCHANGED <<sw_kind, sw_data, sw_idx, sw_transformed, sw_errors, sw_parsed,
                 transform_vars, parse_vars, analysis_vars, correlation_vars,
                 extract_vars, stage_vars, load_vars,
                 handoff_vars>>

\* SWAPITransformer._parse_numeric called on its own
SwapiParseNumeric ==
  /\ sw_pc = "parse"
  /\ sw_parsed' = SWAPITransformer_parse_numeric(pn_value)
  /\ sw_pc' = "parsed"
  /\ UNCHANGED <<sw_kind, sw_data, sw_idx, sw_transformed, sw_errors, transform_vars,
                 parse_vars, analysis_vars, correlation_vars, extract_vars, stage_vars,
                 load_vars, handoff_vars>>

NextSwapi ==
  \/ SwapiAppend \/ SwapiLogError \/ SwapiReturn \/ SwapiParseNumeric \/ ParseNumeric

SpecSwapi == (InitSwapi \/ InitVariants) /\ [][NextSwapi]_vars

\* ------------------------------------------------------------ the stage scripts run together
\* the three scripts start together on one data directory; 1.raw_data.json
\* may be there already
InitHandoff ==
  /\ h_dir \in {"default"} \cup HandoffDirs
  /\ \E seeded \in SUBSET HandoffDirs :
       fs = [p \in Paths |->
               IF p[2] = "1.raw_data.json" /\ p[1] \in seeded THEN Seed ELSE Absent]
  /\ x_data = Extracted(<<>>, <<>>, <<>>) /\ px = "start"
  /\ tr_raw = EmptyDict /\ tr_out = EmptyDict /\ pt = "wait"
  /\ ld_read = Absent /\ pl = "wait" /\ h_polls = NoPolls
  /\ SwapiIdle
  /\ TransformIdle /\ ParseIdle /\ AnalysisIdle /\ CorrelationIdle
  /\ ExtractIdle /\ StageIdle /\ LoadIdle

\* run_extract.py line 10
XExtractAll ==
  /\ px = "start"
  /\ \E people \in SeqsUpTo({DictV(Harry), DictV(Draco)}, MaxRecords) :
       x_data' = Extracted(people, <<>>, <<>>)
  /\ px' = "extracted"
  /\ UNCHANGED <<h_dir, fs, tr_raw, tr_out, pt, ld_read, pl, h_polls>>
  /\ UNCHANGED <<swapi_vars, transform_vars, parse_vars, analysis_vars, correlation_vars,
                 extract_vars, stage_vars, load_vars>>

\* run_extract.py line 17: open(output_file, 'w') creates or truncates
XOpen ==
  /\ px = "extracted"
  /\ fs' = [fs EXCEPT ![ExtractOutput(h_dir)] = Opened]
  /\ px' = "opened"
  /\ UNCHANGED <<h_dir, x_data, tr_raw, tr_out, pt, ld_read, pl, h_polls>>
  /\ UNCHANGED <<swapi_vars, transform_vars, parse_vars, analysis_vars, correlation_vars,
                 extract_vars, stage_vars, load_vars>>

\* line 18: json.dump fills the buffer and the buffer is flushed when full
XFlush ==
  /\ px = "opened" /\ fs[ExtractOutput(h_dir)] = Opened
  /\ fs' = [fs EXCEPT ![ExtractOutput(h_dir)] = Partial(x_data)]
  /\ UNCHANGED <<h_dir, x_data, px, tr_raw, tr_out, pt, ld_read, pl, h_polls>>
  /\ UNCHANGED <<swapi_vars, transform_vars, parse_vars, analysis_vars, correlation_vars,
                 extract_vars, stage_vars, load_vars>>

\* the end of the with block closes the file
XClose ==
  /\ px = "opened"
  /\ fs' = [fs EXCEPT ![ExtractOutput(h_dir)] = Dumped(x_data)]
  /\ px' = "done"
  /\ UNCHANGED <<h_dir, x_data, tr_raw, tr_out, pt, ld_read, pl, h_polls>>
  /\ UNCHANGED <<swapi_vars, transform_vars, parse_vars, analysis_vars, correlation_vars,
                 extract_vars, stage_vars, load_vars>>

\* run_transform.py lines 14-15
TSleep ==
  /\ pt = "wait" /\ ~Exists(fs, TransformPolled)
  /\ h_polls' = [h_polls EXCEPT !.t = IF @ < MaxPolls THEN @ + 1 ELSE @]
  /\ UNCHANGED <<h_dir, fs, x_data, px, tr_raw, tr_out, pt, ld_read, pl>>
  /\ UNCHANGED <<swapi_vars, transform_vars, parse_vars, analysis_vars, correlation_vars,
                 extract_vars, stage_vars, load_vars>>

\* lines 14 and 16
TFound ==
  /\ pt = "wait" /\ Exists(fs, TransformPolled)
  /\ pt' = "check"
  /\ UNCHANGED <<h_dir, fs, x_data, px, tr_raw, tr_out, ld_read, pl, h_polls>>
  /\ UNCHANGED <<swapi_vars, transform_vars, parse_vars, analysis_vars, correlation_vars,
                 extract_vars, stage_vars, load_vars>>

\* lines 21-23
TExitMissing ==
  /\ pt = "check" /\ ~Exists(fs, TransformInput(h_dir))
  /\ pt' = "exited"
  /\ UNCHANGED <<h_dir, fs, x_data, px, tr_raw, tr_out, ld_read, pl, h_polls>>
  /\ UNCHANGED <<swapi_vars, transform_vars, parse_vars, analysis_vars, correlation_vars,
                 extract_vars, stage_vars, load_vars>>

\* lines 25-30: the file is parsed and transformed; json.load may raise
TRead ==
  /\ pt = "check" /\ Exists(fs, TransformInput(h_dir))
  /\ LET raw_data == json_load(fs[TransformInput(h_dir)])
     IN  IF raw_data.exc = "none"
         THEN /\ tr_raw' = raw_data.val
              /\ tr_out' = transform_all(raw_data.val)
              /\ pt' = "transformed"
         ELSE /\ pt' = "crashed"
              /\ UNCHANGED <<tr_raw, tr_out>>
  /\ UNCHANGED <<h_dir, fs, x_data, px, ld_read, pl, h_polls>>
  /\ UNCHANGED <<swapi_vars, transform_vars, parse_vars, analysis_vars, correlation_vars,
                 extract_vars, stage_vars, load_vars>>

\* line 33: open(output_file, 'w')
TOpen ==
  /\ pt = "transformed"
  /\ fs' = [fs EXCEPT ![TransformOutput(h_dir)] = Opened]
  /\ pt' = "opened"
  /\ UNCHANGED <<h_dir, x_data, px, tr_raw, tr_out, ld_read, pl, h_polls>>
  /\ UNCHANGED <<swapi_vars, transform_vars, parse_vars, analysis_vars, correlation_vars,
                 extract_vars, stage_vars, load_vars>>

\* line 34: json.dump, a full buffer is flushed
TFlush ==
  /\ pt = "opened" /\ fs[TransformOutput(h_dir)] = Opened
  /\ fs' = [fs EXCEPT ![TransformOutput(h_dir)] = Partial(tr_out)]
  /\ UNCHANGED <<h_dir, x_data, px, tr_raw, tr_out, pt, ld_read, pl, h_polls>>
  /\ UNCHANGED <<swapi_vars, transform_vars, parse_vars, analysis_vars, correlation_vars,
                 extract_vars, stage_vars, load_vars>>

\* the end of the with block closes the file
TClose ==
  /\ pt = "opened"
  /\ fs' = [fs EXCEPT ![TransformOutput(h_dir)] = Dumped(tr_out)]
  /\ pt' = "saved"
  /\ UNCHANGED <<h_dir, x_data, px, tr_raw, tr_out, ld_read, pl, h_polls>>
  /\ UNCHANGED <<swapi_vars, transform_vars, parse_vars, analysis_vars, correlation_vars,
                 extract_vars, stage_vars, load_vars>>

\* lines 40-46: with characters the analysis report is written (its content
\* is what generate_report returns)
TReport ==
  /\ pt = "saved"
  /\ fs' = IF tr_out.characters # <<>>
           THEN [fs EXCEPT ![ReportFile(h_dir)] = Dumped(NoneV)] ELSE fs
  /\ pt' = "done"
  /\ UNCHANGED <<h_dir, x_data, px, tr_raw, tr_out, ld_read, pl, h_polls>>
  /\ UNCHANGED <<swapi_vars, transform_vars, parse_vars, analysis_vars, correlation_vars,
                 extract_vars, stage_vars, load_vars>>

\* run_load.py lines 13-14
LSleep ==
  /\ pl = "wait" /\ ~Exists(fs, LoadPolled)
  /\ h_polls' = [h_polls EXCEPT !.l = IF @ < MaxPolls THEN @ + 1 ELSE @]
  /\ UNCHANGED <<h_dir, fs, x_data, px, tr_raw, tr_out, pt, ld_read, pl>>
  /\ UNCHANGED <<swapi_vars, transform_vars, parse_vars, analysis_vars, correlation_vars,
                 extract_vars, stage_vars, load_vars>>

\* lines 13 and 15
LFound ==
  /\ pl = "wait" /\ Exists(fs, LoadPolled)
  /\ pl' = "check"
  /\ UNCHANGED <<h_dir, fs, x_data, px, tr_raw, tr_out, pt, ld_read, h_polls>>
  /\ UNCHANGED <<swapi_vars, transform_vars, parse_vars, analysis_vars, correlation_vars,
                 extract_vars, stage_vars, load_vars>>

\* lines 21-26: without the input file the script exits with status 1;
\* otherwise the file is read as it is now, and json.load may raise
LRead ==
  /\ pl = "check"
  /\ IF ~Exists(fs, LoadInput(h_dir))
     THEN pl' = "exited" /\ UNCHANGED ld_read
     ELSE /\ ld_read' = fs[LoadInput(h_dir)]
          /\ pl' = IF json_load(fs[LoadInput(h_dir)]).exc = "none"
                   THEN "parsed" ELSE "crashed"
  /\ UNCHANGED <<h_dir, fs, x_data, px, tr_raw, tr_out, pt, h_polls>>
  /\ UNCHANGED <<swapi_vars, transform_vars, parse_vars, analysis_vars, correlation_vars,
                 extract_vars, stage_vars, load_vars>>

\* lines 29-34: load_all, whose steps SpecLoad takes one by one
LLoadAll ==
  /\ pl = "parsed"
  /\ pl' = "done"
  /\ UNCHANGED <<h_dir, fs, x_data, px, tr_raw, tr_out, pt, ld_read, h_polls>>
  /\ UNCHANGED <<swapi_vars, transform_vars, parse_vars, analysis_vars, correlation_vars,
                 extract_vars, stage_vars, load_vars>>

XStep == XExtractAll \/ XOpen \/ XFlush \/ XClose
TStep == TSleep \/ TFound \/ TExitMissing \/ TRead \/ TOpen \/ TFlush \/ TClose \/ TReport
LStep == LSleep \/ LFound \/ LRead \/ LLoadAll

NextHandoff == XStep \/ TStep \/ LStep

SpecHandoff == InitHandoff /\ [][NextHandoff]_vars

\* each script is a process of its own and always gets to run its next
\* statement
SpecHandoffFair ==
  SpecHandoff /\ WF_vars(XStep) /\ WF_vars(TStep) /\ WF_vars(LStep)


\* ------------------------------------------------------------ properties
Consumed == SubSeq(characters_data, 1, idx)

Field(c, key) == PyGet(c, key, NoneV).val

\* the gate field evaluates true (Python truthiness of the raw value)
GateOpen(c) == c.t = "dict" /\ Truthy(Field(c, "wizard"))

\* a raw numeric value converts without raising
Converts(v) == _parse_numeric(v).exc = "none"
YearConverts(v) ==
  /\ Converts(v)
  /\ _parse_numeric(v).val # NoneV => PyInt(_parse_numeric(v).val).exc = "none"

\* a mapping whose wand is absent or a mapping and whose numeric fields convert
WellFormed(c) ==
  /\ c.t = "dict"
  /\ PyGet(c, "wand", DictV(EmptyDict)).val.t = "dict"
  /\ YearConverts(Field(c, "yearOfBirth"))
  /\ Converts(Field(PyGet(c, "wand", DictV(EmptyDict)).val, "length"))

AllWellFormed(s) == \A i \in DOMAIN s : WellFormed(s[i])

\* the flat record r was made from the raw record c
MadeFrom(r, c) ==
  /\ r.id = Field(c, "id")
  /\ r.name = Field(c, "name")
  /\ r.house = Field(c, "house")
  /\ r.wizard = Field(c, "wizard")

\* C1: on well-formed input the output holds exactly one record per consumed
\* record whose gate is open, in input order, those whose gate is closed
\* (false, null, absent) give none, and nothing is logged as an error
C1_RetainedInOrder ==
  AllWellFormed(Consumed) =>
    LET kept == SelectSeq(Consumed, GateOpen)
    IN  /\ pc # "raised"
        /\ errors = <<>>
        /\ Len(transformed) = Len(kept)
        /\ \A k \in DOMAIN kept : MadeFrom(transformed[k], kept[k])

C1_Witness ==
  /\ pc = "returned"
  /\ AllWellFormed(characters_data)
  /\ Len(characters_data) = 3
  /\ ~GateOpen(characters_data[2])
  /\ Len(transformed) = 2
  /\ transformed[1].id # transformed[2].id

\* C2: no element makes the call raise; every malformed element is logged and
\* skipped, every well-formed retained record is in the output
C2_MalformedIsolated ==
  /\ pc # "raised"
  /\ pc = "returned" =>
       LET kept == SelectSeq(characters_data, LAMBDA c : WellFormed(c) /\ GateOpen(c))
       IN  /\ Len(transformed) = Len(kept)
           /\ \A k \in DOMAIN kept : MadeFrom(transformed[k], kept[k])

\* the fixed field set of a flat record
FlatKeys ==
  {"id", "name", "alternate_names", "house", "year_of_birth", "ancestry", "gender",
   "species", "wizard", "wand_wood", "wand_core", "wand_length", "patronus",
   "hogwarts_student", "hogwarts_staff", "actor", "alternate_actors", "alive", "image",
   "eye_colour", "hair_colour", "date_of_birth"}

\* flat field -> the raw key it is read from
RawKeyOf ==
  [id |-> "id", name |-> "name", alternate_names |-> "alternate_names",
   house |-> "house", year_of_birth |-> "yearOfBirth", ancestry |-> "ancestry",
   gender |-> "gender", species |-> "species", wizard |-> "wizard",
   patronus |-> "patronus", hogwarts_student |-> "hogwartsStudent",
   hogwarts_staff |-> "hogwartsStaff", actor |-> "actor",
   alternate_actors |-> "alternate_actors", alive |-> "alive", image |-> "image",
   eye_colour |-> "eyeColour", hair_colour |-> "hairColour",
   date_of_birth |-> "dateOfBirth"]

WandKeyOf == [wand_wood |-> "wood", wand_core |-> "core", wand_length |-> "length"]

DefaultsFilled(r, c) ==
  /\ \A f \in DOMAIN RawKeyOf :
       RawKeyOf[f] \notin DOMAIN c.v => r[f] \in {NoneV, EmptyList}
  /\ \A f \in DOMAIN WandKeyOf :
       ("wand" \notin DOMAIN c.v \/ WandKeyOf[f] \notin DOMAIN c.v["wand"].v)
         => r[f] = NoneV

\* C3: every output record carries exactly the fixed key set, and a field
\* the raw record lacks is there with a null or empty-list default
C3_FixedKeys ==
  /\ \A k \in DOMAIN transformed : DOMAIN transformed[k] = FlatKeys
  /\ Len(transformed) = idx =>
       \A k \in DOMAIN transformed : DefaultsFilled(transformed[k], characters_data[k])

C3_Witness ==
  /\ pc = "returned"
  /\ Len(transformed) = 1
  /\ DOMAIN characters_data[1].v = {"id", "wizard"}
  /\ transformed[1].house = NoneV
  /\ transformed[1].alternate_names = EmptyList

IsFiniteNumber(v) == v.t \in {"int", "float"}

\* C4: in every output record year_of_birth and wand_length are null or a
\* finite number
C4_FiniteOrNull ==
  \A k \in DOMAIN transformed :
    /\ transformed[k].year_of_birth = NoneV \/ IsFiniteNumber(transformed[k].year_of_birth)
    /\ transformed[k].wand_length = NoneV \/ IsFiniteNumber(transformed[k].wand_length)

SameNumber(a, b) ==
  IF a.t \in {"inf", "nan"} \/ b.t \in {"inf", "nan"} THEN a = b
  ELSE a.t # "bigint" /\ b.t # "bigint" /\ NumValue(a) = NumValue(b)

\* C5: _parse_numeric never raises; null -> null, a number -> the same
\* number, a null word in any case -> null, another string -> float of the
\* string without commas or null if that fails, any other type -> null
C5_ParseNumericRule ==
  pn_pc = "done" =>
    /\ pn_result.exc = "none"
    /\ CASE pn_value.t = "none" -> pn_result.val = NoneV
         [] IsIntOrFloat(pn_value) -> SameNumber(pn_value, pn_result.val)
         [] pn_value.t = "str" ->
              IF Lower(pn_value.v) \in NullWords THEN pn_result.val = NoneV
              ELSE LET f == PyFloatStr(RemoveCommas(pn_value.v))
                   IN  pn_result.val = IF f.exc = "none" THEN f.val ELSE NoneV
         [] OTHER -> pn_result.val = NoneV


\* ------------------------------------------------------------ analysis properties
Summarised == an_pc \notin {"idle", "ready"}

FieldsOf(records) == UNION {DOMAIN records[i] : i \in DOMAIN records}

\* a number that is not a boolean
IsNumberValue(v) == v.t \in {"int", "bigint", "float", "inf", "nan"}

HoldsNumber(records, field) ==
  \E i \in DOMAIN records : field \in DOMAIN records[i] /\ IsNumberValue(records[i][field])

\* C6: numeric_cols is exactly the fields other than id that hold a
\* non-boolean number in some record, in lexicographic order, no duplicates
C6_NumericColumns ==
  Summarised =>
    /\ Listed(numeric_cols) = {f \in FieldsOf(data) \ {"id"} : HoldsNumber(data, f)}
    /\ \A i, j \in DOMAIN numeric_cols : i < j => StrLess(numeric_cols[i], numeric_cols[j])
    /\ "id" \notin Listed(numeric_cols)

C6_Witness ==
  /\ an_pc = "summary"
  /\ numeric_cols = <<"alive", "wand_length", "year_of_birth">>
  /\ \E i \in DOMAIN data : IsNumberValue(data[i]["id"])
  /\ \E i \in DOMAIN data : "wizard" \in DOMAIN data[i] /\ "wizard" \notin Listed(numeric_cols)

\* the non-null, non-boolean numeric observations of a field, ascending
SortedObservations(field) ==
  SortSeq(ColumnValues(data, field), LAMBDA a, b : RLess(a, b))

\* C7: the entry of a field with observations s (ascending, n >= 1) has
\* count n, min s[0], max s[n-1], q1 s[n // 4], q3 s[3n // 4], the median of
\* s, the mean of s, and std 0 when n <= 1; every discovered field has one
C7_SummaryValues ==
  Summarised =>
    /\ \A f \in Listed(_get_numeric_columns(data)) : f \in DOMAIN stats
    /\ \A f \in DOMAIN stats :
         LET s == SortedObservations(f)
             n == Len(s)
             e == stats[f]
         IN  /\ n >= 1
             /\ e.count = n
             /\ e.min = s[1]
             /\ e.max = s[n]
             /\ e.q1 = s[(n \div 4) + 1]
             /\ e.q3 = s[((3 * n) \div 4) + 1]
             /\ n % 2 = 1 => e.median = s[(n + 1) \div 2]
             /\ n % 2 = 0 => e.median = RDiv(RAdd(s[n \div 2], s[(n \div 2) + 1]), RInt(2))
             /\ RMul(e.mean, RInt(n)) = Sum(s)
             /\ n <= 1 => e.std = ZeroStd

\* the observations 1,2,3,4,5 in some order
C7_Witness ==
  /\ an_pc = "summary"
  /\ Len(data) = 5
  /\ data[1].year_of_birth = IntV(4)
  /\ "year_of_birth" \in DOMAIN stats
  /\ LET e == stats["year_of_birth"]
     IN  /\ e.count = 5 /\ e.mean = RInt(3) /\ e.median = RInt(3)
         /\ e.q1 = RInt(2) /\ e.q3 = RInt(4) /\ e.min = RInt(1) /\ e.max = RInt(5)
         /\ e.std # ZeroStd

\* C8: stats has an entry only for a field with at least one non-null
\* numeric observation, and no entry has count 0
C8_NoEmptyEntries ==
  Summarised =>
    \A f \in DOMAIN stats :
      /\ stats[f].count # 0
      /\ \E i \in DOMAIN data : RecGet(data[i], f) # NoneV /\ IsNumberValue(RecGet(data[i], f))

C8_Witness ==
  /\ an_pc = "summary"
  /\ DOMAIN stats = {"year_of_birth"}
  /\ \E i \in DOMAIN data : "wand_length" \in DOMAIN data[i]
  /\ \A i \in DOMAIN data : RecGet(data[i], "wand_length") = NoneV

\* the records that pair a value of the field with a target value
PairedRecords(field) ==
  {i \in DOMAIN data :
     /\ RecGet(data[i], dependent_variable) # NoneV
     /\ RecGet(data[i], field) # NoneV
     /\ IsIntOrFloat(RecGet(data[i], field))}

Candidates == {f \in Listed(_get_numeric_columns(data)) : Cardinality(PairedRecords(f)) >= 2}

Smaller(a, b) == IF a < b THEN a ELSE b

NonIncreasing(ranking) ==
  \A i, j \in DOMAIN ranking : i < j => RLeq(ranking[j].abs_corr, ranking[i].abs_corr)

\* C9: for every data, target field and top_n >= 0 select_best_features
\* returns a list of length min(top_n, number of fields with at least two
\* target-paired observations), in non-increasing absolute correlation
C9_RankLength ==
  an_pc = "features" =>
    /\ best_features.exc = "none"
    /\ Len(best_features.val) = Smaller(top_n, Cardinality(Candidates))
    /\ NonIncreasing(best_features.val)

\* the absolute Pearson correlation of a field's pairs with the target codes
PairedCorrelation(field) ==
  LET at == Ascending(PairedRecords(field))
      codes == EncodeTarget(data, dependent_variable, <<>>, <<>>).val
  IN  AbsCorr(_pearson_correlation(
        [k \in DOMAIN at |-> NumValue(RecGet(data[at[k]], field))],
        [k \in DOMAIN at |-> RInt(codes[at[k]].v)]))

\* C10: a record pairs with the target only if its target and its value are
\* non-null and the value is a number; a field with fewer than two pairs is
\* not ranked, every field with at least two is a candidate and is listed
\* with the absolute Pearson correlation of its pairs
C10_PairingRule ==
  (an_pc = "features" /\ best_features.exc = "none") =>
    LET ranking == best_features.val
        ranked == {ranking[k].col : k \in DOMAIN ranking}
    IN  /\ ranked \subseteq Candidates
        /\ Cardinality(ranked) = Len(ranking)
        /\ top_n >= Cardinality(Candidates) => ranked = Candidates
        /\ \A k \in DOMAIN ranking : ranking[k].abs_corr = PairedCorrelation(ranking[k].col)

C10_Witness ==
  /\ an_pc = "features"
  /\ best_features.exc = "none"
  /\ dependent_variable = "house"
  /\ \E i \in DOMAIN data : RecGet(data[i], "house") = NoneV /\ data[i].year_of_birth # NoneV
  /\ "wand_length" \in Listed(numeric_cols)
  /\ Cardinality(PairedRecords("wand_length")) = 1
  /\ Len(best_features.val) = 1
  /\ best_features.val[1].col = "year_of_birth"
  /\ best_features.val[1].abs_corr # RInt(0)
  /\ top_n = MaxTopN

\* the orders in which the same records can be presented
RECURSIVE Orders(_)
Orders(S) ==
  IF S = {} THEN {<<>>}
  ELSE UNION {{<<i>> \o o : o \in Orders(S \ {i})} : i \in S}

Reorderings(records) ==
  {[k \in DOMAIN records |-> records[o[k]]] : o \in Orders(DOMAIN records)}

\* the records whose target value no earlier record holds
FirstSeen(records, field) ==
  {i \in DOMAIN records :
     /\ RecGet(records[i], field) # NoneV
     /\ \A j \in 1..(i - 1) : ~KeyEq(RecGet(records[j], field), RecGet(records[i], field))}

\* C21: select_best_features returns the same fields with the same absolute
\* correlations in whichever order the records are presented, and for the
\* given order the distinct target values are coded 0, 1, 2, ... as first seen
C21_EncodingIrrelevant ==
  (an_pc = "features" /\ best_features.exc = "none") =>
    /\ \A p \in Reorderings(data) :
         Listed(select_best_features(p, dependent_variable, top_n).val)
           = Listed(best_features.val)
    /\ LET codes == EncodeTarget(data, dependent_variable, <<>>, <<>>).val
       IN  \A i \in DOMAIN data :
             IF RecGet(data[i], dependent_variable) = NoneV THEN codes[i] = NoneV
             ELSE codes[i] = IntV(Cardinality(
                    {j \in FirstSeen(data, dependent_variable) :
                       \E k \in FirstSeen(data, dependent_variable) :
                         /\ j < k
                         /\ KeyEq(RecGet(data[k], dependent_variable),
                                  RecGet(data[i], dependent_variable))}))

\* C23: fields with equal absolute correlation are listed in the order of
\* their names (the order of numeric-field discovery), and among tied fields
\* the ones that come first by name survive the truncation to top_n
C23_TiesByName ==
  (an_pc = "features" /\ best_features.exc = "none") =>
    LET ranking == best_features.val
        ranked == {ranking[k].col : k \in DOMAIN ranking}
    IN  /\ \A i, j \in DOMAIN ranking :
             (i < j /\ ranking[i].abs_corr = ranking[j].abs_corr) =>
               StrLess(ranking[i].col, ranking[j].col)
        /\ \A f \in Candidates \ ranked : \A k \in DOMAIN ranking :
             PairedCorrelation(f) = ranking[k].abs_corr =>
               StrLess(ranking[k].col, f)

\* two fields tie at a correlation that is not zero and only one is kept
C23_Witness ==
  /\ an_pc = "features" /\ best_features.exc = "none"
  /\ top_n = 1
  /\ Len(best_features.val) = 1
  /\ best_features.val[1].abs_corr # RInt(0)
  /\ \E f \in Candidates :
       /\ f # best_features.val[1].col
       /\ PairedCorrelation(f) = best_features.val[1].abs_corr

\* ------------------------------------------------------------ correlation properties
MatrixMade == an_pc \in {"matrix", "reported", "saved"}

Discovered == Listed(_get_numeric_columns(data))

\* the records in which both fields hold a non-null number that is not a boolean
JointRecords(a, b) ==
  {i \in DOMAIN data :
     IsNumberValue(RecGet(data[i], a)) /\ IsNumberValue(RecGet(data[i], b))}

\* the records the code pairs: both values non-null instances of int or float
PairedInMatrix(a, b) ==
  {i \in DOMAIN data :
     /\ RecGet(data[i], a) # NoneV /\ IsIntOrFloat(RecGet(data[i], a))
     /\ RecGet(data[i], b) # NoneV /\ IsIntOrFloat(RecGet(data[i], b))}

\* the rounded Pearson correlation of two fields over a set of records
CorrelationOver(records, a, b) ==
  LET at == Ascending(records)
  IN  Round4(_pearson_correlation(
        [k \in DOMAIN at |-> NumValue(RecGet(data[at[k]], a))],
        [k \in DOMAIN at |-> NumValue(RecGet(data[at[k]], b))]))

\* C11: the matrix entry of two distinct discovered fields A, B is computed
\* from exactly the records in which both A and B hold a non-null number that
\* is not a boolean (the notion of field discovery), chosen per pair
C11_JointObservations ==
  MatrixMade =>
    \A a, b \in Discovered :
      a # b =>
        corr_matrix[a][b] =
          IF Cardinality(JointRecords(a, b)) >= 2
          THEN CorrelationOver(JointRecords(a, b), a, b)
          ELSE DefaultEntry

AllEqual(s) == \A i, j \in DOMAIN s : s[i] = s[j]

\* the quotient of the definition: sign and square of
\* cov / sqrt(sum of squared deviations of x * that of y)
Quotient(x, y) ==
  LET cov == Sum(Products(x, Mean(x), y, Mean(y)))
  IN  Coefficient(Sign(cov),
                  RDiv(RMul(cov, cov),
                       RMul(Sum(SquaredDeviations(x, Mean(x))),
                            Sum(SquaredDeviations(y, Mean(y))))))

\* C13: _pearson_correlation returns 0.0 when the sequences have fewer than
\* 2 elements or one of them has all elements equal; otherwise it returns
\* the covariance sum over the root of the product of the squared-deviation
\* sums, a value in [-1, 1]
C13_PearsonRule ==
  (corr_pc = "done" /\ Len(corr_x) = Len(corr_y)) =>
    IF Len(corr_x) < 2 \/ AllEqual(corr_x) \/ AllEqual(corr_y)
    THEN corr_result = ZeroCoefficient
    ELSE /\ IsFiniteFloat(corr_result.sq)
         /\ RLeq(corr_result.sq, RInt(1))
         /\ \A i \in DOMAIN corr_x : IsFiniteFloat(corr_x[i]) /\ IsFiniteFloat(corr_y[i])
         /\ corr_result = Quotient(corr_x, corr_y)

C14_MatrixWitness ==
  /\ an_pc = "matrix"
  /\ "wand_length" \in Discovered /\ "year_of_birth" \in Discovered
  /\ corr_matrix["wand_length"]["year_of_birth"] \notin {RInt(0), RInt(1), RInt(-1)}
  /\ corr_matrix["year_of_birth"]["wand_length"] = corr_matrix["wand_length"]["year_of_birth"]

Reported == an_pc \in {"reported", "saved"}

\* C15: total_records is the number of records, total_columns the number of
\* fields of the first record (0 without records) whatever the later records
\* hold; without records the other three parts are empty
C15_ReportCounts ==
  Reported =>
    /\ report.total_records = Len(data)
    /\ report.total_columns = IF Len(data) = 0 THEN 0 ELSE Cardinality(DOMAIN data[1])
    /\ Len(data) = 0 =>
         /\ report.statistical_summary = EmptyDict
         /\ report.best_features = <<>>
         /\ report.correlation_matrix = EmptyDict

\* a first record with fewer fields than a later one
C15_Witness ==
  /\ an_pc = "reported"
  /\ Len(data) = MaxData
  /\ Cardinality(DOMAIN data[1]) < Cardinality(DOMAIN data[2])
  /\ report.total_columns = Cardinality(DOMAIN data[1])
  /\ report.total_records = MaxData

\* the empty record sequence
C15_EmptyWitness ==
  /\ an_pc = "reported"
  /\ data = <<>>
  /\ report.total_records = 0 /\ report.total_columns = 0

ReportKeys ==
  {"total_records", "total_columns", "statistical_summary", "best_features",
   "correlation_matrix"}

\* C16: for every sequence of flat records and every target field of the
\* flat record, list-valued ones included, generate_report returns a report
\* with all five keys and save_report does not fail
C16_AlwaysReports ==
  /\ an_pc = "features" => best_features.exc = "none"
  /\ an_pc # "failed"
  /\ an_pc = "saved" => (saved /\ DOMAIN report = ReportKeys)

\* ------------------------------------------------------------ SWAPIExtractorBase
\* what session.get, raise_for_status and response.json produce
Page(results, next) == [status |-> "ok", body |-> DictV([results |-> ListV(results), next |-> next])]

\* a network error, a timeout or a non-2xx status: a RequestException
Failure == [status |-> "RequestException", body |-> NoneV]

\* line 54: f"{self.base_url}/{endpoint}/"
BaseUrl == StrV(<<"p", "/">>)

NextUrls == {StrV(<<"p", "2">>), StrV(<<"p", "3">>)}

\* the answers of the server: a failure, the pages of the envelope
\* {results, next}, an empty object and objects without one of the keys
Responses ==
  {Failure}
  \cup {Page(r, n) : r \in {<<>>, <<IntV(1)>>, <<IntV(2), IntV(3)>>},
                     n \in NextUrls \cup {NoneV}}
  \cup {[status |-> "ok", body |-> DictV(EmptyDict)],
        [status |-> "ok", body |-> DictV([next |-> StrV(<<"p", "2">>)])],
        [status |-> "ok", body |-> DictV([results |-> ListV(<<IntV(4)>>)])]}

\* lines 34-41: the JSON of the response, None on a RequestException
_make_request(response) == IF response.status = "ok" THEN response.body ELSE NoneV

\* an extend that puts the new page first
ExtendFront(list, results) == results \o list

\* line 64: all_results.extend(results)
Extend(list, results) == list \o results

\* line 63
ResultsOf(body) == PyGet(body, "results", EmptyList).val.v

\* line 67
NextOf(body) == PyGet(body, "next", NoneV).val

InitExtract ==
  /\ LateIdle
  /\ url = BaseUrl
  /\ all_results = <<>>
  /\ requests_made = <<>>
  /\ ex_result = <<>>
  /\ ex_pc = "loop"
  /\ StageIdle
  /\ LoadIdle
  /\ TransformIdle
  /\ ParseIdle
  /\ AnalysisIdle
  /\ CorrelationIdle

Requesting == ex_pc = "loop" /\ Truthy(url) /\ Len(requests_made) < MaxPages

\* lines 58-67: a page arrives, its results are added, its next is followed
PageFetched ==
  /\ Requesting
  /\ \E response \in Responses :
       LET page == _make_request(response)
       IN  /\ Truthy(page)
           /\ requests_made' = Append(requests_made, [url |-> url, response |-> response])
           /\ all_results' = Extend(all_results, ResultsOf(page))
           /\ url' = NextOf(page)
  /\ UNCHANGED <<ex_result, ex_pc, stage_vars, load_vars, late_vars, transform_vars, parse_vars,
                 analysis_vars, correlation_vars>>

\* lines 59-61 and 69-70: no data, break, return what was accumulated
RequestBreaks ==
  /\ Requesting
  /\ \E response \in Responses :
       /\ ~Truthy(_make_request(response))
       /\ requests_made' = Append(requests_made, [url |-> url, response |-> response])
  /\ ex_result' = all_results
  /\ ex_pc' = "returned"
  /\ UNCHANGED <<url, all_results, stage_vars, load_vars, late_vars, transform_vars, parse_vars,
                 analysis_vars, correlation_vars>>

\* lines 58 and 69-70: url is None, the loop ends
ReturnResults ==
  /\ ex_pc = "loop" /\ ~Truthy(url)
  /\ ex_result' = all_results
  /\ ex_pc' = "returned"
  /\ UNCHANGED <<url, all_results, requests_made, stage_vars, load_vars, late_vars, transform_vars,
                 parse_vars, analysis_vars, correlation_vars>>

NextExtract == PageFetched \/ RequestBreaks \/ ReturnResults

SpecExtract == InitExtract /\ [][NextExtract]_vars

\* ------------------------------------------------------------ extraction properties
Succeeded(request) == request.response.status = "ok"

RECURSIVE ResultsOfPages(_)
ResultsOfPages(requests) ==
  IF requests = <<>> THEN <<>>
  ELSE (IF Succeeded(Head(requests)) THEN ResultsOf(Head(requests).response.body)
        ELSE <<>>)
       \o ResultsOfPages(Tail(requests))

\* C17: the requests start at the base URL and follow each response's next;
\* no request follows a failed request or a page whose next is null; the
\* call returns the concatenation, in order, of the results of the pages
\* fetched, and it returns only after a null next or a failed request
C17_FollowsNext ==
  LET n == Len(requests_made)
  IN  /\ n >= 1 => requests_made[1].url = BaseUrl
      /\ \A i \in 1..(n - 1) :
           /\ Succeeded(requests_made[i])
           /\ NextOf(requests_made[i].response.body) # NoneV
           /\ requests_made[i + 1].url = NextOf(requests_made[i].response.body)
      /\ ex_pc \in {"idle", "loop", "returned"}
      /\ ex_pc = "returned" =>
           /\ n >= 1
           /\ \/ ~Succeeded(requests_made[n])
              \/ NextOf(requests_made[n].response.body) = NoneV
           /\ ex_result = ResultsOfPages(requests_made)

\* two pages fetched, then a failed request: the two pages are returned
C17_Witness ==
  /\ ex_pc = "returned"
  /\ Len(requests_made) = MaxPages
  /\ ~Succeeded(requests_made[MaxPages])
  /\ Succeeded(requests_made[1])
  /\ ex_result = <<IntV(2), IntV(3), IntV(1)>>

\* ------------------------------------------------------------ the stage scripts
Scripts == {"run_transform", "run_load", "load"}

\* the directories a staging file may be in
Dirs == {"/app/data", "./data", "/mnt/data"}

\* os.getenv('DATA_DIR', ...): unset, or one of two directories
DataDirs == {"default", "/app/data", "/mnt/data"}

\* run_transform.py line 13, run_load.py line 12: the path the script waits for
PolledDir == "/app/data"

\* run_transform.py lines 18-19, run_load.py lines 18-19, load.py lines 131-132
InputDir ==
  IF data_dir # "default" THEN data_dir
  ELSE IF stage = "load" THEN "./data" ELSE "/app/data"

InitStage ==
  /\ LateIdle
  /\ stage \in Scripts
  /\ data_dir \in DataDirs
  /\ files \in SUBSET Dirs
  /\ polls = 0
  /\ exit_status = -1
  /\ st_pc = IF stage = "load" THEN "check" ELSE "wait"
  /\ ExtractIdle
  /\ LoadIdle
  /\ TransformIdle
  /\ ParseIdle
  /\ AnalysisIdle
  /\ CorrelationIdle

\* lines 14-15: the file is not there, sleep and look again
Sleep ==
  /\ st_pc = "wait" /\ PolledDir \notin files
  /\ polls' = IF polls < MaxPolls THEN polls + 1 ELSE polls
  /\ UNCHANGED <<stage, data_dir, files, exit_status, st_pc, extract_vars, load_vars,
                 late_vars, transform_vars, parse_vars, analysis_vars, correlation_vars>>

\* lines 14 and 16: the file is there, the loop ends
Found ==
  /\ st_pc = "wait" /\ PolledDir \in files
  /\ st_pc' = "check"
  /\ UNCHANGED <<stage, data_dir, files, polls, exit_status, extract_vars, load_vars,
                 late_vars, transform_vars, parse_vars, analysis_vars, correlation_vars>>

\* lines 21-23: the error message and exit(1)
ExitMissing ==
  /\ st_pc = "check" /\ InputDir \notin files
  /\ exit_status' = 1
  /\ st_pc' = "exited"
  /\ UNCHANGED <<stage, data_dir, files, polls, extract_vars, load_vars,
                 late_vars, transform_vars, parse_vars, analysis_vars, correlation_vars>>

\* lines 25-26: the file is opened and read
ReadInput ==
  /\ st_pc = "check" /\ InputDir \in files
  /\ st_pc' = "read"
  /\ UNCHANGED <<stage, data_dir, files, polls, exit_status, extract_vars, load_vars,
                 late_vars, transform_vars, parse_vars, analysis_vars, correlation_vars>>

\* the environment: an upstream stage writes its output
FileCreated ==
  /\ st_pc \in {"wait", "check"}
  /\ \E d \in Dirs \ files : files' = files \cup {d}
  /\ UNCHANGED <<stage, data_dir, polls, exit_status, st_pc, extract_vars, load_vars,
                 late_vars, transform_vars, parse_vars, analysis_vars, correlation_vars>>

ScriptStep == Sleep \/ Found \/ ExitMissing \/ ReadInput

NextStage == ScriptStep \/ FileCreated

SpecStage == InitStage /\ [][NextStage]_vars

\* the script always gets to run its next statement; nothing obliges an
\* upstream stage to write the file
SpecStageFair == SpecStage /\ WF_vars(ScriptStep)

\* ------------------------------------------------------------ stage properties
\* C18: a stage whose input file does not exist and is never created ends
\* with the error and a nonzero exit status; it neither reads on without
\* the file nor waits forever
C18_MissingInputFails ==
  /\ [](st_pc = "read" => InputDir \in files)
  /\ ([](InputDir \notin files)) => <>(st_pc = "exited" /\ exit_status > 0)

\* ------------------------------------------------------------ LoadHpToMongo
Doc(id, name) == DictV([id |-> IntV(id), name |-> StrV(<<name>>)])

\* flat records: two with the same id, one with another
DocPool == {Doc(1, "a"), Doc(1, "b"), Doc(2, "a")}

\* {'id': character.get('id')} matches a document
Matches(document, id) == PyGet(document, "id", NoneV).val = id

MatchingPositions(documents, id) == {i \in DOMAIN documents : Matches(documents[i], id)}

FirstMatch(documents, id) ==
  CHOOSE i \in MatchingPositions(documents, id) :
    \A j \in MatchingPositions(documents, id) : i <= j

\* an upsert that inserts without looking for the id
replace_one_insert(documents, record) ==
  [documents |-> Append(documents, record), upserted |-> TRUE, modified_count |-> 0]

\* lines 89-93: collection.replace_one({'id': id}, character, upsert=True)
\* replaces the first matching document, or inserts when none matches
replace_one(documents, record) ==
  LET id == PyGet(record, "id", NoneV).val
  IN  IF MatchingPositions(documents, id) = {}
      THEN [documents |-> Append(documents, record), upserted |-> TRUE,
            modified_count |-> 0]
      ELSE LET i == FirstMatch(documents, id)
           IN  [documents |-> [documents EXCEPT ![i] = record], upserted |-> FALSE,
                modified_count |-> IF documents[i] = record THEN 0 ELSE 1]

\* lines 86-101 on a server that answers: the collection and inserted_count
RECURSIVE UpsertAll(_, _, _)
UpsertAll(documents, characters, inserted_count) ==
  IF characters = <<>>
  THEN [documents |-> documents, inserted_count |-> inserted_count]
  ELSE LET result == replace_one(documents, Head(characters))
       IN  UpsertAll(result.documents, Tail(characters),
                     IF result.upserted \/ result.modified_count > 0
                     THEN inserted_count + 1 ELSE inserted_count)

Count(n) == DictV([characters |-> IntV(n)])

\* lines 70-104 with self.db set: outcome, collection and errors logged.
\* `not self.db` and `not collection` apply bool() to a Database and a
\* Collection, which PyMongo 4 answers with NotImplementedError and
\* PyMongo 3 with True; on a server that does not answer delete_many raises
\* a PyMongoError (return 0) and every replace_one raises (logged, skipped).
load_characters(documents, characters, with_replace, answers, bool_of_db) ==
  IF bool_of_db = "raises"
  THEN [outcome |-> Raise("NotImplementedError"), documents |-> documents, errors |-> 0]
  ELSE IF ~answers
  THEN [outcome |-> Ret(Count(0)), documents |-> documents,
        errors |-> IF with_replace THEN 1 ELSE Len(characters)]
  ELSE LET loaded == UpsertAll(IF with_replace THEN <<>> ELSE documents, characters, 0)
       IN  [outcome |-> Ret(Count(loaded.inserted_count)), documents |-> loaded.documents,
            errors |-> 0]

InitLoad ==
  /\ LateIdle
  /\ uri_ok \in BOOLEAN
  /\ name_ok \in BOOLEAN
  /\ uri_ok \/ name_ok
  /\ reachable \in BOOLEAN
  /\ truth_testing \in {"true", "raises"}
  /\ client = "none"
  /\ db = "none"
  /\ collection \in SeqsUpTo(DocPool, MaxPrior)
  /\ load_data \in SeqsUpTo(DocPool, MaxBatch)
  /\ replace \in BOOLEAN
  /\ logged = 0
  /\ ld_result = Ret(NoneV)
  /\ runs = 1
  /\ once = <<>>
  /\ ld_pc = "start"
  /\ ExtractIdle
  /\ StageIdle
  /\ TransformIdle
  /\ ParseIdle
  /\ AnalysisIdle
  /\ CorrelationIdle

\* lines 43-49: the client and the database are made; the client connects lazily
Connect ==
  /\ ld_pc = "start" /\ uri_ok /\ name_ok
  /\ client' = "open"
  /\ db' = "set"
  /\ ld_pc' = "connected"
  /\ UNCHANGED <<uri_ok, name_ok, reachable, truth_testing, collection, load_data, replace,
                 logged, ld_result, runs, once, extract_vars, stage_vars, late_vars, transform_vars,
                 parse_vars, analysis_vars, correlation_vars>>

\* lines 44 and 50-52: MongoClient rejects the connection string
ConnectRejectsUri ==
  /\ ld_pc = "start" /\ ~uri_ok
  /\ logged' = logged + 1
  /\ ld_pc' = "refused"
  /\ UNCHANGED <<uri_ok, name_ok, reachable, truth_testing, client, db, collection,
                 load_data, replace, ld_result, runs, once, extract_vars, stage_vars,
                 late_vars, transform_vars, parse_vars, analysis_vars, correlation_vars>>

\* lines 44-45 and 50-52: the client is made, the database name is rejected
ConnectRejectsName ==
  /\ ld_pc = "start" /\ uri_ok /\ ~name_ok
  /\ client' = "open"
  /\ logged' = logged + 1
  /\ ld_pc' = "refused"
  /\ UNCHANGED <<uri_ok, name_ok, reachable, truth_testing, db, collection, load_data,
                 replace, ld_result, runs, once, extract_vars, stage_vars, late_vars, transform_vars,
                 parse_vars, analysis_vars, correlation_vars>>

\* lines 111-113: connect returned False
ReturnZero ==
  /\ ld_pc = "refused"
  /\ logged' = logged + 1
  /\ ld_result' = Ret(Count(0))
  /\ ld_pc' = "returned"
  /\ UNCHANGED <<uri_ok, name_ok, reachable, truth_testing, client, db, collection,
                 load_data, replace, runs, once, extract_vars, stage_vars, late_vars, transform_vars,
                 parse_vars, analysis_vars, correlation_vars>>

\* lines 115-123: load_characters runs in the try
LoadCharacters ==
  /\ ld_pc = "connected"
  /\ LET call == load_characters(collection, load_data, replace, reachable, truth_testing)
     IN  /\ collection' = call.documents
         /\ logged' = logged + call.errors
         /\ ld_result' = call.outcome
  /\ ld_pc' = "finally"
  /\ UNCHANGED <<uri_ok, name_ok, reachable, truth_testing, client, db, load_data, replace,
                 runs, once, extract_vars, stage_vars, late_vars, transform_vars, parse_vars,
                 analysis_vars, correlation_vars>>

\* lines 124-125 and 54-58: the finally closes the client, then the return
\* or the exception goes on
Disconnect ==
  /\ ld_pc = "finally"
  /\ client' = IF client = "none" THEN "none" ELSE "closed"
  /\ ld_pc' = IF ld_result.exc = "none" THEN "returned" ELSE "raised"
  /\ UNCHANGED <<uri_ok, name_ok, reachable, truth_testing, db, collection, load_data,
                 replace, logged, ld_result, runs, once, extract_vars, stage_vars,
                 late_vars, transform_vars, parse_vars, analysis_vars, correlation_vars>>

LoadEnded == ld_pc \in {"returned", "raised"}

\* the same loader is run once more on the same data
LoadAgain ==
  /\ LoadEnded /\ runs < MaxRuns
  /\ runs' = runs + 1
  /\ once' = collection
  /\ ld_result' = Ret(NoneV)
  /\ ld_pc' = "start"
  /\ UNCHANGED <<uri_ok, name_ok, reachable, truth_testing, client, db, collection,
                 load_data, replace, logged, extract_vars, stage_vars, late_vars, transform_vars,
                 parse_vars, analysis_vars, correlation_vars>>

NextLoad ==
  \/ Connect \/ ConnectRejectsUri \/ ConnectRejectsName \/ ReturnZero
  \/ LoadCharacters \/ Disconnect \/ LoadAgain

SpecLoad == InitLoad /\ [][NextLoad]_vars

\* ------------------------------------------------------------ load properties
\* C19: when the sink cannot be reached load_all logs the failure and
\* returns characters 0 without raising; a client that was opened is closed
\* when load_all ends, on the normal and on the failing path
C19_UnreachableSink ==
  LoadEnded =>
    /\ ~reachable =>
         /\ ld_pc = "returned"
         /\ ld_result = Ret(Count(0))
         /\ logged > 0 \/ (~replace /\ load_data = <<>>)
    /\ client # "open"

Ids(documents) == {PyGet(documents[i], "id", NoneV).val : i \in DOMAIN documents}

LastWith(documents, id) ==
  documents[CHOOSE i \in MatchingPositions(documents, id) :
              \A j \in MatchingPositions(documents, id) : j <= i]

SinkAvailable == uri_ok /\ name_ok /\ reachable

\* C20: running the load twice on the same batch leaves the collection as
\* running it once, with replace and without; after a load with replace the
\* collection holds one document per distinct id of the batch, the last
\* record with that id, and nothing else
C20_Idempotent ==
  (LoadEnded /\ SinkAvailable) =>
    /\ runs > 1 => collection = once
    /\ replace =>
         /\ Len(collection) = Cardinality(Ids(load_data))
         /\ \A i \in DOMAIN collection :
              collection[i] = LastWith(load_data, PyGet(collection[i], "id", NoneV).val)
         /\ Ids(collection) = Ids(load_data)

\* ------------------------------------------------------------ SWAPITransformer properties
\* the transformed record made from the i-th raw record: the raw records
\* that were not logged are appended in order
KeptBefore(i) == {j \in 1..i : j \notin Listed(sw_errors)}
OutputOf(i) == sw_transformed[Cardinality(KeptBefore(i))]

\* C22: for every input SWAPITransformer._parse_numeric returns what
\* HPTransformer._parse_numeric returns and never raises, and a raw record
\* whose numeric attribute is already a number is kept with that number
C22_SameRuleEverywhere ==
  /\ (pn_pc = "done" /\ sw_pc = "parsed") =>
       sw_parsed.exc = "none" /\ sw_parsed = pn_result
  /\ sw_pc = "returned" =>
       \A i \in DOMAIN sw_data :
         LET number == RecGet(sw_data[i], NumericKey[sw_kind])
         IN  (IsIntOrFloat(number) /\ sw_data[i].url.t = "str") =>
               /\ i \notin Listed(sw_errors)
               /\ SameNumber(number, OutputOf(i)[NumericKey[sw_kind]])

\* the integer a locator ends with: its last segment, trailing slashes
\* aside, read as a decimal integer; null for anything else
TrailingInteger(entry) ==
  IF entry.t # "str" THEN NoneV
  ELSE LET segment == Strip(LastPart(RStripSlash(entry.v)))
           digits == IF segment # <<>> /\ Head(segment) \in {"+", "-"}
                     THEN Tail(segment) ELSE segment
       IN  IF digits = <<>> \/ ~AllDigits(digits) THEN NoneV
           ELSE IF Head(segment) = "-" THEN IntV(0 - DigitsValue(digits))
           ELSE IntV(DigitsValue(digits))

\* C24: a raw record whose relation is a list is kept, its id list has the
\* length of the raw list and position j holds the trailing integer of the
\* j-th locator or null (the record's other attributes are strings or null)
C24_RelationPositions ==
  sw_pc = "returned" =>
    \A i \in DOMAIN sw_data :
      LET films == RelationOf(sw_data[i], "films")
          number == RecGet(sw_data[i], NumericKey[sw_kind])
      IN  (films.t = "list" /\ sw_data[i].url.t = "str" /\ number.t \in {"str", "none"}) =>
            /\ i \notin Listed(sw_errors)
            /\ Len(OutputOf(i).film_ids.v) = Len(films.v)
            /\ \A j \in DOMAIN films.v :
                 OutputOf(i).film_ids.v[j] = TrailingInteger(films.v[j])

\* ------------------------------------------------------------ handoff properties
\* the records a raw file holds, whatever its keys
RecordsIn(raw_data) ==
  IF DOMAIN raw_data = {} THEN <<>>
  ELSE IF "characters" \in DOMAIN raw_data THEN raw_data.characters
  ELSE raw_data.people \o raw_data.planets \o raw_data.starships

\* run_transform has left its wait loop and transformed what run_extract wrote
Handed ==
  /\ pt \in {"transformed", "opened", "saved", "done"}
  /\ tr_raw = x_data
  /\ RawCharacters(tr_raw) = RecordsIn(x_data)

\* C25: with run_extract and run_transform on the same data directory, once
\* run_extract has completed run_transform eventually leaves its wait loop
\* and normalizes the records run_extract wrote
C25_HandoffProgress == (px = "done") ~> Handed

\* C26: whatever run_load read after its poll succeeded is the complete
\* transformed data run_transform wrote
C26_NoPartialRead ==
  pl \in {"parsed", "crashed", "done"} => ld_read = Dumped(tr_out)

\* ------------------------------------------------------------ quartile properties
\* a <= b on floats: false when either is nan
PyLeq(a, b) ==
  IF a = FloatNan \/ b = FloatNan THEN FALSE
  ELSE IF IsFiniteFloat(a) /\ IsFiniteFloat(b) THEN RLeq(a, b)
  ELSE IF ~IsFiniteFloat(a) THEN a[1] < 0 \/ a = b
  ELSE b[1] > 0

\* C27: in every entry of statistical_summary the indexes n // 4 and
\* (3 * n) // 4 are positions of the n sorted observations, and
\* min <= q1 <= median <= q3 <= max
C27_QuartilesOrdered ==
  an_pc = "summary" =>
    \A f \in DOMAIN stats :
      LET e == stats[f]
          n == Len(ColumnValues(data, f))
      IN  /\ n >= 1 /\ e.count = n
          /\ n \div 4 \in 0..(n - 1)
          /\ (3 * n) \div 4 \in 0..(n - 1)
          /\ PyLeq(e.min, e.q1) /\ PyLeq(e.q1, e.median)
          /\ PyLeq(e.median, e.q3) /\ PyLeq(e.q3, e.max)

====
